---- MODULE Spec2Model ----
(***************************************************************************)
(* A model of the Anthropic -> OpenAI translator of cursor-claude-connector *)
(* (src/src/server.ts): the per-exchange ConverterState, processChunk and   *)
(* its helpers updateMetrics, transformToOpenAI and createUsageChunk, the   *)
(* streaming loop of messagesFn that drives them, and the stateless         *)
(* convertNonStreamingResponse.                                             *)
(*                                                                         *)
(* Conventions.  A JS string that the code takes apart (tool arguments,     *)
(* text, message ids) is a sequence of characters or tokens; a JS string    *)
(* that is only compared or copied is a TLA+ string.  An optional object is *)
(* a record with a "present" flag; an optional string field is Null.  The   *)
(* "created" field of a chunk (Date.now()) is left out of the chunks: no    *)
(* statement checked here reads it.                                         *)
(***************************************************************************)
EXTENDS Integers, Sequences, FiniteSets, TLC

\* ------------------------------------------------------------------------
\* JavaScript values
\* ------------------------------------------------------------------------

\* null / undefined of a string-valued field.
Null == "<null>"

\* JS truthiness of a string-or-null value: null, undefined and "" are falsy.
Truthy(s) == s # Null /\ s # ""

\* JS truthiness of a string held as a sequence: only "" (and absence) is falsy.
NonEmpty(s) == Len(s) > 0

\* String.prototype.startsWith
StartsWith(s, p) == Len(p) <= Len(s) /\ SubSeq(s, 1, Len(p)) = p

\* String.prototype.substring(n)
Substring(s, n) == SubSeq(s, n + 1, Len(s))

\* String.prototype.replace(tok, ''): removes the first occurrence of tok.
RECURSIVE ReplaceFirst(_, _)
ReplaceFirst(s, tok) ==
    IF s = <<>> THEN <<>>
    ELSE IF Head(s) = tok THEN Tail(s)
    ELSE <<Head(s)>> \o ReplaceFirst(Tail(s), tok)

\* 'chatcmpl-' + Date.now(): the id a chunk gets when no message_start was seen.
FallbackId == <<"chatcmpl-", "<now>">>

\* ------------------------------------------------------------------------
\* Upstream events (AnthropicStreamEvent) as JSON.parse returns them
\* ------------------------------------------------------------------------

NoUsage ==
    [present |-> FALSE, input_tokens |-> 0, output_tokens |-> 0,
     cache_creation_input_tokens |-> 0, cache_read_input_tokens |-> 0]

Usage(i, o, cc, cr) ==
    [present |-> TRUE, input_tokens |-> i, output_tokens |-> o,
     cache_creation_input_tokens |-> cc, cache_read_input_tokens |-> cr]

NoMessage ==
    [present |-> FALSE, has_id |-> FALSE, id |-> <<>>, model |-> Null,
     usage |-> NoUsage, stop_reason |-> Null]

Message(id, model, usage) ==
    [present |-> TRUE, has_id |-> TRUE, id |-> id, model |-> model,
     usage |-> usage, stop_reason |-> Null]

NoBlock == [type |-> Null, id |-> Null, name |-> Null]

NoDelta == [text |-> <<>>, partial_json |-> <<>>, stop_reason |-> Null]

\* An event of the given type with every optional field absent.
Event(type) ==
    [type |-> type, message |-> NoMessage, content_block |-> NoBlock,
     has_index |-> FALSE, index |-> 0, delta |-> NoDelta, usage |-> NoUsage,
     model |-> Null, stop_reason |-> Null]

\* data.index ?? 0
IndexOf(data) == IF data.has_index THEN data.index ELSE 0

\* ------------------------------------------------------------------------
\* Client chunks (OpenAIStreamChunk) and results (ProcessResult)
\* ------------------------------------------------------------------------

NoToolCall ==
    [present |-> FALSE, index |-> 0, id |-> Null, name |-> Null,
     arguments |-> <<>>]

NoChunkUsage ==
    [present |-> FALSE, prompt_tokens |-> 0, completion_tokens |-> 0,
     total_tokens |-> 0]

\* "no chunk": the null transformToOpenAI and createUsageChunk return.
NoChunk ==
    [present |-> FALSE, id |-> <<>>, model |-> Null, role |-> Null,
     has_content |-> FALSE, content |-> <<>>, tool_call |-> NoToolCall,
     finish_reason |-> Null, usage |-> NoChunkUsage]

\* A chunk with one choice, an empty delta and a null finish_reason.
Chunk(id, model) ==
    [present |-> TRUE, id |-> id, model |-> model, role |-> Null,
     has_content |-> FALSE, content |-> <<>>, tool_call |-> NoToolCall,
     finish_reason |-> Null, usage |-> NoChunkUsage]

\* src is the position, in the text given to processChunk, of the line that
\* produced the result (bookkeeping of the model, not a field of the code).
ChunkResult(c, src) == [type |-> "chunk", data |-> c, src |-> src]
DoneResult(src) == [type |-> "done", data |-> NoChunk, src |-> src]

\* ------------------------------------------------------------------------
\* ConverterState
\* ------------------------------------------------------------------------

\* The block indices the modelled upstream uses.
Indices == {0, 1}

\* An index of toolCallsTracker with no entry.
NoTracker == [present |-> FALSE, id |-> "", name |-> "", arguments |-> <<>>]

createConverterState ==
    [toolCallsTracker |-> [i \in Indices |-> NoTracker],
     metricsData |->
        [model |-> "", stop_reason |-> Null, input_tokens |-> 0,
         cache_creation_input_tokens |-> 0, cache_read_input_tokens |-> 0,
         output_tokens |-> 0, messageId |-> <<>>, openAIId |-> <<>>]]

\* ------------------------------------------------------------------------
\* updateMetrics
\* ------------------------------------------------------------------------

\* A buggy variant of AddUsage: the counters are replaced, not added to.
AddUsageReplacing(m, u) ==
    [m EXCEPT !.input_tokens = u.input_tokens,
              !.output_tokens = u.output_tokens,
              !.cache_creation_input_tokens = u.cache_creation_input_tokens,
              !.cache_read_input_tokens = u.cache_read_input_tokens]

\* The four "+=" of one usage object (an absent field counts as 0).
AddUsage(m, u) ==
    [m EXCEPT !.input_tokens = @ + u.input_tokens,
              !.output_tokens = @ + u.output_tokens,
              !.cache_creation_input_tokens = @ + u.cache_creation_input_tokens,
              !.cache_read_input_tokens = @ + u.cache_read_input_tokens]

updateMetrics(m, data) ==
    LET m1 == IF data.type = "message_start" /\ data.message.present
              THEN [m EXCEPT
                      !.messageId = IF data.message.has_id
                                    THEN data.message.id ELSE <<>>,
                      !.model = IF Truthy(data.message.model)
                                THEN data.message.model ELSE @]
              ELSE m
        m2 == IF Truthy(data.model) THEN [m1 EXCEPT !.model = data.model] ELSE m1
        m3 == IF Truthy(data.stop_reason)
              THEN [m2 EXCEPT !.stop_reason = data.stop_reason] ELSE m2
        m4 == IF data.type = "message_delta" /\ Truthy(data.delta.stop_reason)
              THEN [m3 EXCEPT !.stop_reason = data.delta.stop_reason] ELSE m3
        m5 == IF data.usage.present THEN AddUsage(m4, data.usage) ELSE m4
        m6 == IF data.message.present /\ data.message.usage.present
              THEN AddUsage(
                     IF Truthy(data.message.model)
                     THEN [m5 EXCEPT !.model = data.message.model] ELSE m5,
                     data.message.usage)
              ELSE m5
    IN  IF data.message.present /\ Truthy(data.message.stop_reason)
        THEN [m6 EXCEPT !.stop_reason = data.message.stop_reason] ELSE m6

\* ------------------------------------------------------------------------
\* createUsageChunk
\* ------------------------------------------------------------------------

\* A buggy variant of ChunkId: the id of the exchange is not used.
ChunkIdFresh(st) == FallbackId

\* state.metricsData.openAIId || 'chatcmpl-' + Date.now()
ChunkId(st) ==
    IF NonEmpty(st.metricsData.openAIId) THEN st.metricsData.openAIId
    ELSE FallbackId

\* state.metricsData.model || 'claude-unknown'
ChunkModel(st) ==
    IF Truthy(st.metricsData.model) THEN st.metricsData.model
    ELSE "claude-unknown"

UsageChunkOf(st) ==
    [Chunk(ChunkId(st), ChunkModel(st)) EXCEPT
       !.usage = [present |-> TRUE,
                  prompt_tokens |-> st.metricsData.input_tokens,
                  completion_tokens |-> st.metricsData.output_tokens,
                  total_tokens |-> st.metricsData.input_tokens
                                   + st.metricsData.output_tokens]]

\* A buggy variant of createUsageChunk: no test for "no token data".
createUsageChunkAlways(st) == UsageChunkOf(st)

createUsageChunk(st) ==
    IF st.metricsData.input_tokens = 0 /\ st.metricsData.output_tokens = 0
    THEN NoChunk
    ELSE UsageChunkOf(st)

\* ------------------------------------------------------------------------
\* transformToOpenAI
\* ------------------------------------------------------------------------

\* A buggy variant of ResolveDelta: a cumulative snapshot is emitted whole.
ResolveDeltaNoStrip(b, f) ==
    IF NonEmpty(b) /\ StartsWith(f, b)
    THEN [newPart |-> f, arguments |-> f]
    ELSE [newPart |-> f, arguments |-> b \o f]

\* A buggy variant of ResolveDelta: the buffer is appended to in both cases.
ResolveDeltaAlwaysAppend(b, f) ==
    IF NonEmpty(b) /\ StartsWith(f, b)
    THEN [newPart |-> Substring(f, Len(b)), arguments |-> b \o f]
    ELSE [newPart |-> f, arguments |-> b \o f]

\* A buggy variant of ResolveDelta: a fragment replaces the buffer.
ResolveDeltaNoAppend(b, f) ==
    IF NonEmpty(b) /\ StartsWith(f, b)
    THEN [newPart |-> Substring(f, Len(b)), arguments |-> f]
    ELSE [newPart |-> f, arguments |-> f]

\* The fragment-or-accumulated test on toolCall.arguments = b and
\* data.delta.partial_json = f: the part to emit and the new buffer.
ResolveDelta(b, f) ==
    IF NonEmpty(b) /\ StartsWith(f, b)
    THEN [newPart |-> Substring(f, Len(b)), arguments |-> f]
    ELSE [newPart |-> f, arguments |-> b \o f]

\* A buggy variant of StreamFinishReason: the two mapped values swapped.
StreamFinishReasonSwapped(r) ==
    IF r = "end_turn" THEN "tool_calls"
    ELSE IF r = "tool_use" THEN "stop"
    ELSE r

\* finish_reason of the message_delta chunk (r is truthy there).
StreamFinishReason(r) ==
    IF r = "end_turn" THEN "stop"
    ELSE IF r = "tool_use" THEN "tool_calls"
    ELSE r

\* 'chatcmpl-' + data.message.id.replace('msg_', '')
\* A buggy variant of OpenAIIdOf: 'msg_' stays in the id.
OpenAIIdOfKeepingPrefix(id) == <<"chatcmpl-">> \o id

OpenAIIdOf(id) == <<"chatcmpl-">> \o ReplaceFirst(id, "msg_")

\* transformToOpenAI(state, data): the state after it, the chunk it returns
\* (NoChunk for null), and whether it threw (a message_start whose message has
\* no id: data.message.id.replace is a TypeError, raised before any write).
\* A buggy variant of NewToolCall: the accumulator is not bound to the block.
NewToolCallUnbound(block) ==
    [present |-> TRUE, id |-> "", name |-> "", arguments |-> <<>>]

\* { id: content_block.id ?? '', name: content_block.name ?? '',
\*   arguments: '' }
NewToolCall(block) ==
    [present |-> TRUE,
     id |-> IF block.id = Null THEN "" ELSE block.id,
     name |-> IF block.name = Null THEN "" ELSE block.name,
     arguments |-> <<>>]

\* A buggy variant of SetToolCall: the buffer of an accumulator already at
\* that index is kept.
SetToolCallMerging(tracker, i, toolCall) ==
    [tracker EXCEPT ![i] =
        [toolCall EXCEPT !.arguments = tracker[i].arguments]]

\* state.toolCallsTracker.set(i, toolCall)
SetToolCall(tracker, i, toolCall) == [tracker EXCEPT ![i] = toolCall]

\* A buggy variant of ArgumentsEntry: the entry repeats the id and name.
ArgumentsEntryWithId(toolCall, i, newPart) ==
    [present |-> TRUE, index |-> i, id |-> toolCall.id,
     name |-> toolCall.name, arguments |-> newPart]

\* { index, function: { arguments: newPart } }: no id and no name.
ArgumentsEntry(toolCall, i, newPart) ==
    [present |-> TRUE, index |-> i, id |-> Null, name |-> Null,
     arguments |-> newPart]

\* A buggy variant of ContentOf: the text loses its first character.
ContentOfTail(text) == Tail(text)

\* delta: { content: data.delta.text }
ContentOf(text) == text

\* A buggy variant of GetToolCall: a missing accumulator is made up.
GetToolCallOrNew(st, i) ==
    IF st.toolCallsTracker[i].present THEN st.toolCallsTracker[i]
    ELSE [present |-> TRUE, id |-> "", name |-> "", arguments |-> <<>>]

\* state.toolCallsTracker.get(i): undefined is a tracker that is not present.
GetToolCall(st, i) == st.toolCallsTracker[i]

transformToOpenAI(st, data) ==
    IF data.type = "message_start" /\ data.message.present
    THEN IF ~data.message.has_id
         THEN [state |-> st, chunk |-> NoChunk, threw |-> TRUE]
         ELSE LET openAIId == OpenAIIdOf(data.message.id)
              IN  [state |-> [st EXCEPT !.metricsData.openAIId = openAIId],
                   chunk |-> [Chunk(openAIId, data.message.model) EXCEPT
                                !.role = "assistant",
                                !.has_content = TRUE, !.content = <<>>],
                   threw |-> FALSE]
    ELSE IF data.type = "content_block_start"
            /\ data.content_block.type = "tool_use"
    THEN [state |-> [st EXCEPT !.toolCallsTracker =
                       SetToolCall(@, IndexOf(data),
                                   NewToolCall(data.content_block))],
          chunk |-> [Chunk(ChunkId(st), ChunkModel(st)) EXCEPT
                       !.tool_call = [present |-> TRUE,
                                      index |-> IndexOf(data),
                                      id |-> data.content_block.id,
                                      name |-> data.content_block.name,
                                      arguments |-> <<>>]],
          threw |-> FALSE]
    ELSE IF data.type = "content_block_delta"
            /\ NonEmpty(data.delta.partial_json)
    THEN LET toolCall == GetToolCall(st, IndexOf(data))
             r == ResolveDelta(toolCall.arguments, data.delta.partial_json)
         IN  IF toolCall.present
             THEN [state |-> [st EXCEPT
                      !.toolCallsTracker[IndexOf(data)].arguments = r.arguments],
                   chunk |-> [Chunk(ChunkId(st), ChunkModel(st)) EXCEPT
                                !.tool_call =
                                    ArgumentsEntry(toolCall, IndexOf(data),
                                                   r.newPart)],
                   threw |-> FALSE]
             ELSE [state |-> st, chunk |-> NoChunk, threw |-> FALSE]
    ELSE IF data.type = "content_block_delta" /\ NonEmpty(data.delta.text)
    THEN [state |-> st,
          chunk |-> [Chunk(ChunkId(st), ChunkModel(st)) EXCEPT
                       !.has_content = TRUE,
                       !.content = ContentOf(data.delta.text)],
          threw |-> FALSE]
    ELSE IF data.type = "message_delta" /\ Truthy(data.delta.stop_reason)
    THEN [state |-> st,
          chunk |-> [Chunk(ChunkId(st), ChunkModel(st)) EXCEPT
                       !.finish_reason =
                           StreamFinishReason(data.delta.stop_reason)],
          threw |-> FALSE]
    ELSE [state |-> st, chunk |-> NoChunk, threw |-> FALSE]

\* ------------------------------------------------------------------------
\* processChunk
\* ------------------------------------------------------------------------

\* The lines chunk.split('\n') yields, by what the loop does with them:
\*   "blank"      trims to ''
\*   "event"      starts with 'event:'
\*   "other"      no 'data: ' prefix, or no '{' in it (keepalive, comment)
\*   "malformed"  'data: ' with a '{', and JSON.parse throws
\*   "data"       'data: ' with a '{', and JSON.parse returns the event
\*   "head"       the first part of a data line cut by the end of a read:
\*                'data: ' and JSON text that stops short, JSON.parse throws
\*   "tail"       the rest of that line, at the start of the next read: no
\*                'data: ' prefix
NoiseLine(kind) == [kind |-> kind, data |-> Event("none")]
DataLine(data) == [kind |-> "data", data |-> data]
HeadPiece(data) == [kind |-> "head", data |-> data]
TailPiece(data) == [kind |-> "tail", data |-> data]

\* A buggy variant of DroppedKind: ping is not skipped.
DroppedKindButPing(data) ==
    \/ data.type = "content_block_stop"
    \/ data.type = "content_block_start" /\ data.content_block.type = "text"

\* The kinds the loop skips ("continue") before updateMetrics: ping and
\* content_block_stop, and content_block_start of a text block.
DroppedKind(data) ==
    \/ data.type = "ping" \/ data.type = "content_block_stop"
    \/ data.type = "content_block_start" /\ data.content_block.type = "text"

\* The rest of the try block once transformToOpenAI returned t (or threw):
\* the chunk, and for message_stop the usage chunk and done.
AfterTransform(t, data, src) ==
    IF t.threw
    THEN [state |-> t.state, results |-> <<>>, raised |-> TRUE]
    ELSE [state |-> t.state,
          results |->
              (IF t.chunk.present THEN <<ChunkResult(t.chunk, src)>> ELSE <<>>)
              \o (IF data.type = "message_stop"
                  THEN (IF createUsageChunk(t.state).present
                        THEN <<ChunkResult(createUsageChunk(t.state), src)>>
                        ELSE <<>>)
                       \o <<DoneResult(src)>>
                  ELSE <<>>),
          raised |-> FALSE]

\* updateMetrics run on the state a result holds.
MetricsAfter(r, data) ==
    [r EXCEPT !.state.metricsData = updateMetrics(@, data)]

\* A buggy variant of ProcessEvent: the chunks are built first, the metrics
\* updated afterwards.
ProcessEventLateMetrics(st, data, src) ==
    IF DroppedKind(data)
    THEN [state |-> st, results |-> <<>>, raised |-> FALSE]
    ELSE MetricsAfter(AfterTransform(transformToOpenAI(st, data), data, src),
                      data)

\* The body of the try block for one parsed event; src tags its results.
\* raised: an exception left the body.
ProcessEvent(st, data, src) ==
    IF DroppedKind(data)
    THEN [state |-> st, results |-> <<>>, raised |-> FALSE]
    ELSE AfterTransform(
             transformToOpenAI(
                 [st EXCEPT !.metricsData = updateMetrics(@, data)], data),
             data, src)

\* JSON.parse throws on the text of a malformed line.
ParseFailure(st) == [state |-> st, results |-> <<>>, raised |-> TRUE]

\* A buggy variant of Catch: the exception goes on to the caller.
CatchRethrow(r) == r

\* catch (parseError) { }: the exception ends there, the loop goes on.
Catch(r) == [r EXCEPT !.raised = FALSE]

ProcessLine(st, line, src) ==
    IF line.kind = "data" THEN Catch(ProcessEvent(st, line.data, src))
    ELSE IF line.kind \in {"malformed", "head"} THEN Catch(ParseFailure(st))
    ELSE [state |-> st, results |-> <<>>, raised |-> FALSE]

\* A buggy variant of Push: the new results go in front of the earlier ones.
PushFront(results, new) == new \o results

\* results.push(...) for the results of one line.
Push(results, new) == results \o new

\* The for loop over the lines from position k on; an exception that leaves
\* the body of the loop leaves processChunk.
RECURSIVE ProcessLines(_, _, _, _)
RECURSIVE NextLine(_, _, _, _)
NextLine(r, lines, k, results) ==
    IF r.raised
    THEN [state |-> r.state, results |-> results, raised |-> TRUE]
    ELSE ProcessLines(r.state, lines, k + 1, Push(results, r.results))

ProcessLines(st, lines, k, results) ==
    IF k > Len(lines)
    THEN [state |-> st, results |-> results, raised |-> FALSE]
    ELSE NextLine(ProcessLine(st, lines[k], k), lines, k, results)

processChunk(st, lines) == ProcessLines(st, lines, 1, <<>>)

\* ------------------------------------------------------------------------
\* convertNonStreamingResponse
\* ------------------------------------------------------------------------

\* block.input: absent, or an object given as its sequence of <<key, value>>.
NoInput == [present |-> FALSE, pairs |-> <<>>]
Input(pairs) == [present |-> TRUE, pairs |-> pairs]

\* JSON.stringify of an object of string values, as its sequence of tokens.
RECURSIVE StringifyPairs(_)
StringifyPairs(pairs) ==
    IF pairs = <<>> THEN <<>>
    ELSE <<"\"", pairs[1][1], "\"", ":", "\"", pairs[1][2], "\"">>
         \o (IF Len(pairs) > 1 THEN <<",">> ELSE <<>>)
         \o StringifyPairs(Tail(pairs))

\* JSON.stringify(block.input || {})
StringifyInput(input) ==
    <<"{">> \o (IF input.present THEN StringifyPairs(input.pairs) ELSE <<>>)
            \o <<"}">>

TextBlock(text) ==
    [type |-> "text", text |-> text, id |-> Null, name |-> Null,
     input |-> NoInput]

ToolUseBlock(id, name, input) ==
    [type |-> "tool_use", text |-> <<>>, id |-> id, name |-> name,
     input |-> input]

\* finish_reason of the whole response.
SnapshotFinishReason(r) ==
    IF r = "end_turn" THEN "stop"
    ELSE IF r = "tool_use" THEN "tool_calls"
    ELSE IF Truthy(r) THEN r ELSE Null

\* A buggy variant of IsToolCallBlock: the name is not required.
IsToolCallBlockAnyName(block) == block.type = "tool_use" /\ Truthy(block.id)

\* block.type === 'tool_use' && block.id && block.name
IsToolCallBlock(block) ==
    block.type = "tool_use" /\ Truthy(block.id) /\ Truthy(block.name)

\* The loop over anthropicResponse.content from block k on: the text so far
\* and the tool calls so far.
RECURSIVE ConvertBlocks(_, _, _, _)
ConvertBlocks(content, k, textContent, tool_calls) ==
    IF k > Len(content)
    THEN [textContent |-> textContent, tool_calls |-> tool_calls]
    ELSE LET block == content[k]
         IN  IF block.type = "text"
             THEN ConvertBlocks(content, k + 1, textContent \o block.text,
                                tool_calls)
             ELSE IF IsToolCallBlock(block)
             THEN ConvertBlocks(content, k + 1, textContent,
                      Append(tool_calls,
                             [id |-> block.id, name |-> block.name,
                              arguments |-> StringifyInput(block.input)]))
             ELSE ConvertBlocks(content, k + 1, textContent, tool_calls)

NoResponse ==
    [present |-> FALSE, id |-> <<>>, model |-> Null, content_null |-> TRUE,
     content |-> <<>>, tool_calls |-> <<>>, finish_reason |-> Null,
     usage |-> NoChunkUsage]

convertNonStreamingResponse(r) ==
    LET blocks == ConvertBlocks(r.content, 1, <<>>, <<>>)
    IN  [present |-> TRUE,
         id |-> <<"chatcmpl-">>
                \o ReplaceFirst(IF r.has_id THEN r.id ELSE <<"<now>">>, "msg_"),
         model |-> IF Truthy(r.model) THEN r.model ELSE "claude-unknown",
         content_null |-> ~NonEmpty(blocks.textContent),
         content |-> blocks.textContent,
         tool_calls |-> blocks.tool_calls,
         finish_reason |-> SnapshotFinishReason(r.stop_reason),
         usage |-> [present |-> TRUE,
                    prompt_tokens |-> r.usage.input_tokens,
                    completion_tokens |-> r.usage.output_tokens,
                    total_tokens |-> r.usage.input_tokens
                                     + r.usage.output_tokens]]

\* ------------------------------------------------------------------------
\* The streaming loop of messagesFn (transformToOpenAIFormat = true)
\* ------------------------------------------------------------------------

VARIABLES
    state,      \* converterState of the exchange
    client,     \* the records written to the client with stream.write, in order
    hpc,        \* "reading": in the while loop; "released": after the finally
    fed,        \* every line read from upstream so far, in order (history)
    calls,      \* per block index, the argument deltas upstream sent since the
                \* block's tool_use start, each with what it meant (history)
    response,       \* the whole upstream response given to the Snapshot path
    openAIResponse, \* what convertNonStreamingResponse returned for it
    heap,       \* the converter state objects allocated so far, by reference
    exchanges,  \* per concurrent request: its converterState reference, what
                \* it wrote to its client, the lines it read, its position
    req,        \* the request messagesFn is handling: its inputs, where the
                \* handler is, and the calls it has made so far (history)
    credentials, \* what Redis holds under 'auth:anthropic'
    auth        \* the calls of getAccessToken in flight, each with the
                \* credentials it read and the response it got, and what the
                \* token endpoint has been sent and has issued (history)

streamVars == <<state, client, hpc, fed>>
snapshotVars == <<response, openAIResponse>>
isoVars == <<heap, exchanges>>
authVars == <<req, credentials, auth>>
vars ==
    <<state, client, hpc, fed, calls, response, openAIResponse, heap,
      exchanges, req, credentials, auth>>

\* The lines one exchange of SpecStream may read in all.
MaxFrames == 3

\* The number of lines one reader.read() may deliver.
ReadSizes == {1, 2, 3}

\* What the loop writes for one result: 'data: <JSON of the chunk>\n\n' for a
\* chunk, 'data: [DONE]\n\n' for done.  src becomes the position in fed.
Written(result, base) ==
    IF result.type = "chunk"
    THEN [kind |-> "data", data |-> result.data, src |-> base + result.src]
    ELSE [kind |-> "[DONE]", data |-> NoChunk, src |-> base + result.src]

\* for (const result of results) { await stream.write(...) }
WriteAll(results, base) ==
    [k \in 1..Len(results) |-> Written(results[k], base)]

\* The body of the while loop for a read that delivered these lines, on the
\* converterState st of an exchange that wrote `written` and read base lines.
\* What the exchange holds and has written once the results r are written.
\* An exception out of processChunk skips the writes and leaves the loop.
AfterWrites(r, written, base) ==
    [state |-> r.state,
     client |-> IF r.raised THEN written
                ELSE written \o WriteAll(r.results, base),
     raised |-> r.raised]

LoopTurn(st, written, base, lines) ==
    AfterWrites(processChunk(st, lines), written, base)

\* One turn of the while loop on a read that delivered these lines.
\* The loop goes on to the next read, or an exception took it to the catch
\* and the finally.
TurnDone(t) ==
    /\ state' = t.state
    /\ client' = t.client
    /\ hpc' = IF t.raised THEN "released" ELSE "reading"

HandlerStep(lines) ==
    /\ hpc = "reading"
    /\ TurnDone(LoopTurn(state, client, Len(fed), lines))
    /\ fed' = fed \o lines

\* A buggy variant of UpstreamEnd: the handler closes the client's stream
\* with a terminal marker of its own.
UpstreamEndWritingDone ==
    /\ hpc = "reading"
    /\ hpc' = "released"
    /\ client' = Append(client, [kind |-> "[DONE]", data |-> NoChunk,
                                  src |-> Len(fed)])
    /\ UNCHANGED <<state, fed>>

\* reader.read() returns done: break, then finally releaseLock().
UpstreamEnd ==
    /\ hpc = "reading"
    /\ hpc' = "released"
    /\ UNCHANGED <<state, client, fed>>

\* reader.read() rejects: catch logs, then finally releaseLock().
UpstreamError ==
    /\ hpc = "reading"
    /\ hpc' = "released"
    /\ UNCHANGED <<state, client, fed>>

StreamInit ==
    /\ state = createConverterState
    /\ client = <<>>
    /\ hpc = "reading"
    /\ fed = <<>>

\* ------------------------------------------------------------------------
\* SpecStream: one exchange fed a mix of upstream lines
\* ------------------------------------------------------------------------

MsgId == <<"msg_", "01">>

MessageStart ==
    [Event("message_start") EXCEPT
       !.message = Message(MsgId, "claude-x", Usage(2, 1, 1, 0))]

\* A message_start whose message carries usage and no id.
MessageStartNoId ==
    [Event("message_start") EXCEPT
       !.message = [Message(<<>>, Null, Usage(1, 0, 0, 0)) EXCEPT
                      !.has_id = FALSE]]

\* A message_start without message.
MessageStartNoMessage == Event("message_start")

\* A message_start whose message id has 'msg_' elsewhere than in front.
OddMsgId == <<"x", "msg_", "01">>
MessageStartOddId ==
    [Event("message_start") EXCEPT
       !.message = Message(OddMsgId, "claude-x", NoUsage)]

TextDelta ==
    [Event("content_block_delta") EXCEPT
       !.has_index = TRUE, !.index = 0,
       !.delta = [NoDelta EXCEPT !.text = <<"h", "i">>]]

MessageDelta ==
    [Event("message_delta") EXCEPT
       !.delta = [NoDelta EXCEPT !.stop_reason = "end_turn"],
       !.usage = Usage(1, 2, 0, 1)]

MessageStop == Event("message_stop")

PingWithUsage == [Event("ping") EXCEPT !.usage = Usage(1, 1, 0, 1)]

\* A message_stop that itself carries usage and a stop reason.
MessageStopWithUsage ==
    [Event("message_stop") EXCEPT
       !.usage = Usage(0, 3, 0, 0), !.stop_reason = "max_tokens"]

BlockStop ==
    [Event("content_block_stop") EXCEPT !.has_index = TRUE, !.index = 0]

TextBlockStart ==
    [Event("content_block_start") EXCEPT
       !.has_index = TRUE, !.index = 0,
       !.content_block = [NoBlock EXCEPT !.type = "text"]]

ToolBlockStart(i) ==
    [Event("content_block_start") EXCEPT
       !.has_index = TRUE, !.index = i,
       !.content_block = [type |-> "tool_use", id |-> "t1", name |-> "lookup"]]

ToolDelta(i, f) ==
    [Event("content_block_delta") EXCEPT
       !.has_index = TRUE, !.index = i,
       !.delta = [NoDelta EXCEPT !.partial_json = f]]

StreamLines ==
    { DataLine(MessageStart), DataLine(MessageStartNoId), DataLine(TextDelta),
      DataLine(MessageDelta), DataLine(MessageStop), DataLine(PingWithUsage),
      DataLine(BlockStop), DataLine(TextBlockStart),
      DataLine(ToolBlockStart(0)), DataLine(ToolDelta(0, <<"a">>)),
      NoiseLine("malformed"), NoiseLine("event") }

\* The reads of 1 to 3 lines.
ReadsOf(lines) ==
    UNION { [1..n -> lines] : n \in ReadSizes }

Read ==
    /\ \E lines \in ReadsOf(StreamLines) :
          /\ Len(fed) + Len(lines) <= MaxFrames
          /\ HandlerStep(lines)
    /\ UNCHANGED <<calls, response, openAIResponse>>
    /\ UNCHANGED <<heap, exchanges, req, credentials, auth>>

StreamEnd ==
    UpstreamEnd /\ UNCHANGED <<calls, response, openAIResponse>>
                /\ UNCHANGED <<heap, exchanges, req, credentials, auth>>

StreamError ==
    UpstreamError /\ UNCHANGED <<calls, response, openAIResponse>>
                  /\ UNCHANGED <<heap, exchanges, req, credentials, auth>>

NextStream == Read \/ StreamEnd \/ StreamError

\* An AnthropicResponse with no id, no content and no stop reason.
EmptyUpstreamResponse ==
    [has_id |-> FALSE, id |-> <<>>, model |-> Null, stop_reason |-> Null,
     usage |-> NoUsage, content |-> <<>>]

NoCalls == [i \in Indices |-> <<>>]

\* The requests that may be in flight at once, and the references a
\* converterState object may have.
Exchanges == {1, 2}
Refs == {1, 2}

\* No converterState object allocated, no request arrived.
NoHeap == [r \in Refs |-> [allocated |-> FALSE, st |-> createConverterState]]
NoExchange ==
    [started |-> FALSE, ref |-> 0, client |-> <<>>, fed |-> <<>>,
     hpc |-> "idle"]
IsoInit ==
    /\ heap = NoHeap
    /\ exchanges = [e \in Exchanges |-> NoExchange]

\* No request being handled, nothing stored in Redis.
\* pc: "idle", "gate", "lookup", "fetch", "streaming", "done"; n: how many
\* requests have arrived; oauthToken: 0 is null; status: 0 is no response
\* yet; log: the calls of getAccessToken and fetch made for this request.
NoRequest ==
    [pc |-> "idle", n |-> 0, apiKey |-> Null, cursorCheck |-> FALSE,
     isStreaming |-> FALSE, oauthToken |-> 0, status |-> 0, log |-> <<>>]

\* OAuthCredentials: access and refresh tokens are numbered, the n-th
\* refresh returns tokens n + 1; has_refresh: refresh is not ''; expired:
\* expires is not later than Date.now().
NoCredentials ==
    [present |-> FALSE, expired |-> FALSE, has_refresh |-> FALSE,
     access |-> 0, refresh |-> 0]

\* The calls of getAccessToken that may be in flight at once.
MaxCallers == 2
Callers == 1..MaxCallers

\* pc: "idle", "got" (redis.get answered), "sent" (the refresh request is at
\* the token endpoint), "received" (its response is in), "returned"; cred:
\* the credentials the call read; resp: the tokens of the response; ret: the
\* token returned (0 is null); sinceLogout: the call began after a logout
\* that no code exchange has followed.
NoCall ==
    [pc |-> "idle", cred |-> NoCredentials, resp |-> 0, ret |-> 0,
     sinceLogout |-> FALSE]

\* sent: the refresh tokens sent to the token endpoint, in order; issued: the
\* number of the last tokens the endpoint issued; latest: the tokens of the
\* latest successful refresh response (0: none since the last logout or code
\* exchange); loggedOut: logout has completed and no code exchange since;
\* started: the calls of getAccessToken begun so far.
NoAuth ==
    [p |-> [c \in Callers |-> NoCall], sent |-> <<>>, issued |-> 1,
     latest |-> 0, loggedOut |-> FALSE, started |-> 0]

AuthInit ==
    /\ req = NoRequest
    /\ credentials = NoCredentials
    /\ auth = NoAuth

InitStream ==
    /\ StreamInit
    /\ calls = NoCalls
    /\ response = EmptyUpstreamResponse
    /\ openAIResponse = NoResponse
    /\ IsoInit
    /\ AuthInit

SpecStream == InitStream /\ [][NextStream]_vars

\* ------------------------------------------------------------------------
\* Properties of one streamed exchange (SpecStream)
\* ------------------------------------------------------------------------

CounterFields ==
    {"input_tokens", "output_tokens", "cache_creation_input_tokens",
     "cache_read_input_tokens"}

IsEvent(line) == line.kind = "data"

\* The value of one usage field a line carries, top-level and message usage
\* together (an absent usage carries 0).
Carried(line, field) ==
    IF IsEvent(line)
    THEN line.data.usage[field] + line.data.message.usage[field]
    ELSE 0

CarriesUsage(line) ==
    IsEvent(line) /\ (line.data.usage.present \/ line.data.message.usage.present)

RECURSIVE SumCarried(_, _, _)
SumCarried(lines, field, countDropped) ==
    IF lines = <<>> THEN 0
    ELSE (IF countDropped \/ ~DroppedKind(Head(lines).data)
          THEN Carried(Head(lines), field) ELSE 0)
         + SumCarried(Tail(lines), field, countDropped)

DoneCount == Cardinality({k \in 1..Len(client) : client[k].kind = "[DONE]"})

StopCount ==
    Cardinality({k \in 1..Len(fed) :
                    IsEvent(fed[k]) /\ fed[k].data.type = "message_stop"})

\* C4, as claimed: the final input_tokens and output_tokens equal the sum of
\* every usage value carried by any frame of the sequence, whatever its kind.
C4_SumOfEveryFrame ==
    /\ state.metricsData.input_tokens = SumCarried(fed, "input_tokens", TRUE)
    /\ state.metricsData.output_tokens = SumCarried(fed, "output_tokens", TRUE)

\* C4, amended: input_tokens and output_tokens equal the sum of every usage
\* value (top-level and message usage, duplicates counted) carried by the
\* frames that are not of a dropped kind (ping, content_block_stop, text
\* content_block_start); usage on a dropped-kind frame is not counted.
C4_SumOfAbsorbedFrames ==
    /\ state.metricsData.input_tokens = SumCarried(fed, "input_tokens", FALSE)
    /\ state.metricsData.output_tokens = SumCarried(fed, "output_tokens", FALSE)

\* The same usage frame twice and a ping with usage: 1 + 1 counted, 1 dropped.
C4_Witness ==
    /\ Len(fed) = 3
    /\ fed[1] = DataLine(MessageDelta)
    /\ fed[2] = DataLine(PingWithUsage)
    /\ fed[3] = DataLine(MessageDelta)
    /\ state.metricsData.input_tokens = 2
    /\ state.metricsData.output_tokens = 4

\* C5: no step lowers any of the four token counters of the Exchange Metrics.
C5_CountersNeverDecrease ==
    [][\A f \in CounterFields : state'.metricsData[f] >= state.metricsData[f]]_vars

\* Two usage-bearing frames absorbed, every counter above zero.
C5_Witness ==
    /\ Len(fed) = 2
    /\ fed[1] = DataLine(MessageStart)
    /\ fed[2] = DataLine(MessageDelta)
    /\ \A f \in CounterFields : state.metricsData[f] > 0
    /\ state.metricsData.input_tokens = 3

\* C6, as claimed: once a message_stop was received, the output of all
\* processChunk calls together holds exactly one terminal event.
C6_ExactlyOneTerminal == StopCount >= 1 => DoneCount = 1

\* C7: while no frame read so far carried usage (or only frames of a dropped
\* kind did, whose usage is not absorbed), no written chunk has a usage field.
C7_NoUsageChunkWithoutUsage ==
    (\A k \in 1..Len(fed) : CarriesUsage(fed[k]) => DroppedKind(fed[k].data))
        => \A j \in 1..Len(client) : ~client[j].data.usage.present

\* An exchange without usage that completed: a chunk, then the terminal.
C7_Witness ==
    /\ \A k \in 1..Len(fed) : ~CarriesUsage(fed[k])
    /\ Len(client) = 2
    /\ client[1].kind = "data"
    /\ client[2].kind = "[DONE]"

\* C8: the written records follow the order of the lines that produced them,
\* only lines that are events of a kind not dropped produce any, and the whole
\* output is what one processChunk call on all the lines read would give,
\* however the lines were split over the reads.
C8_OrderPreserved ==
    /\ \A j, k \in 1..Len(client) : j < k => client[j].src <= client[k].src
    /\ \A j \in 1..Len(client) :
          /\ client[j].src \in 1..Len(fed)
          /\ IsEvent(fed[client[j].src])
          /\ ~DroppedKind(fed[client[j].src].data)
    /\ \A k \in 1..Len(fed) :
          fed[k] = DataLine(TextDelta) => \E j \in 1..Len(client) : client[j].src = k
    /\ client = WriteAll(processChunk(createConverterState, fed).results, 0)

\* Output, a dropped frame, output: the two outputs in the order of the frames.
C8_Witness ==
    /\ Len(fed) = 3
    /\ fed[1] = DataLine(TextDelta)
    /\ IsEvent(fed[2]) /\ DroppedKind(fed[2].data)
    /\ fed[3] = DataLine(ToolBlockStart(0))
    /\ Len(client) = 2
    /\ client[1].data.has_content
    /\ client[2].data.tool_call.present

\* C10, as claimed: the '[DONE]' marker is the last record written; after it
\* no chunk record and no second marker is written.
C10_DoneIsLast ==
    \A k \in 1..Len(client) : client[k].kind = "[DONE]" => k = Len(client)

\* ------------------------------------------------------------------------
\* SpecDelta: one exchange fed tool_use starts and tool-argument deltas
\* ------------------------------------------------------------------------

\* The lines one exchange of SpecDelta may read in all.
MaxDeltaFrames == 4

\* The argument texts upstream adds in one delta.
DeltaTexts == { <<>>, <<"a">>, <<"a", "b">>, <<"c", "d">>, <<"e", "f">> }

\* Where the deltas go: every text to block 0, one text to block 1.
DeltaTargets ==
    { [index |-> 0, text |-> t] : t \in DeltaTexts }
        \cup { [index |-> 1, text |-> <<"a", "b">>] }

RECURSIVE Flatten(_)
Flatten(ss) == IF ss = <<>> THEN <<>> ELSE Head(ss) \o Flatten(Tail(ss))

\* The argument text upstream has produced for block i since its start.
UpstreamArgs(i) == Flatten([k \in 1..Len(calls[i]) |-> calls[i][k].new])

\* The accumulator's buffer for block i.
Buffer(i) == state.toolCallsTracker[i].arguments

\* The argument fragments of the tool-call chunks among these results.
ArgumentsIn(results) ==
    LET idx == {k \in 1..Len(results) :
                   results[k].type = "chunk" /\ results[k].data.tool_call.present}
    IN  IF idx = {} THEN <<>>
        ELSE <<results[CHOOSE k \in idx : TRUE].data.tool_call.arguments>>

\* A content_block_start of kind tool_use for block i arrives.
ToolStart ==
    \E i \in Indices :
       /\ Len(fed) < MaxDeltaFrames
       /\ HandlerStep(<<DataLine(ToolBlockStart(i))>>)
       /\ calls' = [calls EXCEPT ![i] = <<>>]
       /\ UNCHANGED <<response, openAIResponse, heap, exchanges, req,
                     credentials, auth>>

\* Upstream adds text to block tgt.index and sends it as partial_json json; the
\* delta is recorded when the block has an accumulator.
SendDelta(tgt, mode, json) ==
    LET i == tgt.index
        line == DataLine(ToolDelta(i, json))
        r == processChunk(state, <<line>>)
    IN  /\ Len(fed) < MaxDeltaFrames
        /\ HandlerStep(<<line>>)
        /\ calls' = IF state.toolCallsTracker[i].present
                    THEN [calls EXCEPT ![i] = Append(@,
                            [mode |-> mode, json |-> json, new |-> tgt.text,
                             before |-> Buffer(i),
                             out |-> ArgumentsIn(r.results)])]
                    ELSE calls
        /\ UNCHANGED <<response, openAIResponse, heap, exchanges, req,
                     credentials, auth>>

\* Upstream sends one delta: in fragment mode the added text alone, in snapshot
\* mode everything produced so far, added text included.
DeltaModes == {"fragment", "snapshot"}

ArgumentDelta ==
    \E tgt \in DeltaTargets, mode \in DeltaModes :
       SendDelta(tgt, mode,
                 IF mode = "fragment" THEN tgt.text
                 ELSE UpstreamArgs(tgt.index) \o tgt.text)

NextDelta == ToolStart \/ ArgumentDelta

SpecDelta == InitStream /\ [][NextDelta]_vars

\* The buffer right after the k-th recorded delta of block i.
BufferAfter(i, k) ==
    IF k < Len(calls[i]) THEN calls[i][k + 1].before ELSE Buffer(i)

\* Some independent fragment for block i started with the non-empty buffer.
Ambiguous(i) ==
    \E k \in 1..Len(calls[i]) :
       /\ calls[i][k].mode = "fragment"
       /\ NonEmpty(calls[i][k].before)
       /\ StartsWith(calls[i][k].json, calls[i][k].before)

AllOfMode(i, mode) == \A k \in 1..Len(calls[i]) : calls[i][k].mode = mode

\* C1: for a delta f on a block whose accumulator holds b: if b is non-empty
\* and f starts with b, the emitted fragment is f without its first len(b)
\* characters and the buffer becomes f; otherwise the emitted fragment is f
\* and the buffer becomes b followed by f (an empty f reaches no resolution
\* step: it emits nothing and leaves b).
C1_DeltaResolutionStep ==
    \A i \in Indices : \A k \in 1..Len(calls[i]) :
       LET d == calls[i][k]
       IN  IF NonEmpty(d.before) /\ StartsWith(d.json, d.before)
           THEN /\ d.out = <<Substring(d.json, Len(d.before))>>
                /\ BufferAfter(i, k) = d.json
           ELSE /\ d.out = IF NonEmpty(d.json) THEN <<d.json>> ELSE <<>>
                /\ BufferAfter(i, k) = d.before \o d.json

\* Both cases of the step on one block: a fragment, then a snapshot extending it.
C1_Witness ==
    /\ Len(calls[0]) = 2
    /\ calls[0][1].json = <<"a", "b">>
    /\ calls[0][1].out = <<<<"a", "b">>>>
    /\ calls[0][2].json = <<"a", "b", "c", "d">>
    /\ calls[0][2].out = <<<<"c", "d">>>>
    /\ Buffer(0) = <<"a", "b", "c", "d">>

\* Every emitted chunk of block i carries exactly the text upstream added with
\* that delta, and the accumulated value is all the text upstream produced.
OnlyNewTextEmitted(i) ==
    /\ \A k \in 1..Len(calls[i]) :
          calls[i][k].out # <<>> => calls[i][k].out = <<calls[i][k].new>>
    /\ \A k \in 1..Len(calls[i]) :
          calls[i][k].out = <<>> => calls[i][k].new = <<>>
    /\ Buffer(i) = UpstreamArgs(i)

\* C2, as claimed: in snapshot mode, in fragment mode and across switches
\* between them, each emitted chunk carries only the new text.
C2_OnlyNewTextEmitted == \A i \in Indices : OnlyNewTextEmitted(i)

\* C2, amended: the same, as long as no independent fragment starts with the
\* non-empty accumulated buffer (such a fragment is taken for a snapshot and
\* loses its first len(buffer) characters); in particular after a run of
\* snapshots s1..sn the emitted fragments are s1, s2 minus s1, ..., sn minus
\* s(n-1) and the accumulated value is sn.
C2_OnlyNewTextUnlessAmbiguous ==
    \A i \in Indices :
       /\ ~Ambiguous(i) => OnlyNewTextEmitted(i)
       /\ AllOfMode(i, "snapshot") =>
             /\ \A k \in 1..Len(calls[i]) :
                   LET prev == IF k = 1 THEN <<>> ELSE calls[i][k - 1].json
                   IN  NonEmpty(calls[i][k].json) =>
                          calls[i][k].out =
                              <<Substring(calls[i][k].json, Len(prev))>>
             /\ Len(calls[i]) > 0 => Buffer(i) = calls[i][Len(calls[i])].json

\* A fragment, a snapshot, a fragment again: each emits its own new text.
C2_Witness ==
    /\ Len(calls[0]) = 3
    /\ calls[0][1].mode = "fragment" /\ calls[0][1].out = <<<<"a", "b">>>>
    /\ calls[0][2].mode = "snapshot" /\ calls[0][2].out = <<<<"c", "d">>>>
    /\ calls[0][2].json = <<"a", "b", "c", "d">>
    /\ calls[0][3].mode = "fragment" /\ calls[0][3].out = <<<<"e", "f">>>>
    /\ Buffer(0) = <<"a", "b", "c", "d", "e", "f">>

\* The fragments emitted for block i are the partial_json values fed, in
\* order (an empty one may emit nothing), and the accumulated value is their
\* concatenation.
FragmentsEchoed(i) ==
    /\ \A k \in 1..Len(calls[i]) :
          \/ calls[i][k].out = <<calls[i][k].json>>
          \/ calls[i][k].json = <<>> /\ calls[i][k].out = <<>>
    /\ Buffer(i) = Flatten([k \in 1..Len(calls[i]) |-> calls[i][k].json])

\* C3, as claimed: independent fragments f1..fn for one block are emitted as
\* f1..fn and accumulate to f1 f2 ... fn.
C3_FragmentsEchoed ==
    \A i \in Indices : AllOfMode(i, "fragment") => FragmentsEchoed(i)

\* C3, amended: the same for fragments of which none starts with the
\* non-empty concatenation of the fragments before it; every non-empty fragment
\* is then emitted as it came, and an empty one emits no chunk.
C3_FragmentsEchoedUnlessAmbiguous ==
    \A i \in Indices :
       (AllOfMode(i, "fragment") /\ ~Ambiguous(i)) =>
           /\ FragmentsEchoed(i)
           /\ \A k \in 1..Len(calls[i]) :
                 calls[i][k].out =
                     IF NonEmpty(calls[i][k].json)
                     THEN <<calls[i][k].json>> ELSE <<>>

\* The fragments "ab", "cd", "ef" for block 0.
C3_Witness ==
    /\ Len(calls[0]) = 3
    /\ AllOfMode(0, "fragment")
    /\ calls[0][1].json = <<"a", "b">> /\ calls[0][1].out = <<<<"a", "b">>>>
    /\ calls[0][2].json = <<"c", "d">> /\ calls[0][2].out = <<<<"c", "d">>>>
    /\ calls[0][3].json = <<"e", "f">> /\ calls[0][3].out = <<<<"e", "f">>>>
    /\ Buffer(0) = <<"a", "b", "c", "d", "e", "f">>

\* ------------------------------------------------------------------------
\* SpecSnapshot: one whole upstream response, converted as a whole and its
\* stop reason streamed as a message_delta
\* ------------------------------------------------------------------------

\* The content blocks one upstream response may hold.
MaxBlocks == 2

\* stop_reason: the values of the upstream API, the empty string and null.
StopReasons ==
    {"end_turn", "tool_use", "max_tokens", "stop_sequence", "", Null}

SnapshotBlocks ==
    { TextBlock(<<"Hello, ">>), TextBlock(<<"world">>), TextBlock(<<>>),
      ToolUseBlock("t1", "lookup", Input(<< <<"q", "x">> >>)),
      ToolUseBlock(Null, "lookup", NoInput),
      ToolUseBlock("t2", Null, Input(<<>>)),
      ToolUseBlock("t3", "fetch", NoInput) }

Responses ==
    { [has_id |-> h, id |-> MsgId, model |-> "claude-x", stop_reason |-> r,
       usage |-> Usage(3, 2, 0, 0), content |-> c] :
        h \in BOOLEAN, r \in StopReasons,
        c \in UNION { [1..n -> SnapshotBlocks] : n \in 0..MaxBlocks } }

InitSnapshot ==
    /\ StreamInit
    /\ calls = NoCalls
    /\ response \in Responses
    /\ openAIResponse = NoResponse
    /\ IsoInit
    /\ AuthInit

\* The non-streaming branch of messagesFn: the response is converted.
Convert ==
    /\ ~openAIResponse.present
    /\ openAIResponse' = convertNonStreamingResponse(response)
    /\ UNCHANGED <<state, client, hpc, fed, calls, response>>
    /\ UNCHANGED <<heap, exchanges, req, credentials, auth>>

\* The message_delta event a stream of this response carries.
MessageDeltaOf(r) ==
    [Event("message_delta") EXCEPT
       !.delta = [NoDelta EXCEPT !.stop_reason = r.stop_reason],
       !.usage = Usage(0, r.usage.output_tokens, 0, 0)]

\* The streaming branch reads the message_delta of the same response.
StreamMessageDelta ==
    /\ fed = <<>>
    /\ HandlerStep(<<DataLine(MessageDeltaOf(response))>>)
    /\ UNCHANGED <<calls, response, openAIResponse>>
    /\ UNCHANGED <<heap, exchanges, req, credentials, auth>>

NextSnapshot == Convert \/ StreamMessageDelta

SpecSnapshot == InitSnapshot /\ [][NextSnapshot]_vars

\* The mapping table: end_turn -> stop, tool_use -> tool_calls, null (and the
\* empty string, which JS takes for absent) -> null, anything else unchanged.
MappedStopReason(r) ==
    IF r = "end_turn" THEN "stop"
    ELSE IF r = "tool_use" THEN "tool_calls"
    ELSE IF r = Null \/ r = "" THEN Null
    ELSE r

TextOf(content) ==
    Flatten([k \in 1..Len(content) |->
                IF content[k].type = "text" THEN content[k].text ELSE <<>>])

HasTextBlock(content) == \E k \in 1..Len(content) : content[k].type = "text"

\* C12, as claimed: the content of the client response is the concatenation,
\* in array order, of the text of the text-kind blocks, and it is null if and
\* only if the upstream response has no text-kind block: text blocks that are
\* present and empty give the empty string, not null.
C12_NullIffNoTextBlock ==
    openAIResponse.present =>
        /\ openAIResponse.content_null <=> ~HasTextBlock(response.content)
        /\ ~openAIResponse.content_null
              => openAIResponse.content = TextOf(response.content)

\* The positions of the tool_use blocks that have both an id and a name.
NamedToolBlocks(content) ==
    {k \in 1..Len(content) :
        /\ content[k].type = "tool_use"
        /\ content[k].id \notin {Null, ""}
        /\ content[k].name \notin {Null, ""}}

\* The j-th smallest member of a set of positions.
Nth(positions, j) ==
    CHOOSE k \in positions : Cardinality({m \in positions : m <= k}) = j

\* C13: the tool-call list of the client response has exactly one entry per
\* tool_use block that has both id and name, in the array order of those
\* blocks, each with the block's id and name and with arguments the JSON text
\* of the block's input ('{}' when the block has no input); tool_use blocks
\* missing id or name add no entry and do not disturb the order of the rest.
C13_ToolCallsOfNamedBlocks ==
    openAIResponse.present =>
        LET named == NamedToolBlocks(response.content)
            tool_calls == openAIResponse.tool_calls
        IN  /\ Len(tool_calls) = Cardinality(named)
            /\ \A j \in 1..Len(tool_calls) :
                  LET block == response.content[Nth(named, j)]
                  IN  /\ tool_calls[j].id = block.id
                      /\ tool_calls[j].name = block.name
                      /\ tool_calls[j].arguments =
                            IF block = ToolUseBlock("t1", "lookup",
                                                    Input(<< <<"q", "x">> >>))
                            THEN <<"{", "\"", "q", "\"", ":", "\"", "x", "\"",
                                   "}">>
                            ELSE <<"{", "}">>

\* A tool_use block without name, then the block t1 with input {"q":"x"}: one
\* tool call, for t1.
C13_Witness ==
    /\ openAIResponse.present
    /\ response.content =
          <<ToolUseBlock("t2", Null, Input(<<>>)),
            ToolUseBlock("t1", "lookup", Input(<< <<"q", "x">> >>))>>
    /\ Len(openAIResponse.tool_calls) = 1
    /\ openAIResponse.tool_calls[1].id = "t1"

\* ------------------------------------------------------------------------
\* SpecIso: two requests streamed at once by the same server
\* ------------------------------------------------------------------------

\* The lines one exchange of SpecIso may read in all.
MaxIsoFrames == 2

IsoLines ==
    { DataLine(MessageStart), DataLine(ToolBlockStart(0)),
      DataLine(ToolDelta(0, <<"a">>)), DataLine(MessageStop) }

\* A buggy variant of NewStateRef: one converterState object for the server.
NewStateRefShared(h) == 1

\* The reference of the object literal createConverterState() returns: a new
\* object at every call.
NewStateRef(h) == CHOOSE r \in Refs : ~h[r].allocated

\* The stream callback starts: const converterState = createConverterState()
IsoStart(e) ==
    /\ ~exchanges[e].started
    /\ LET r == NewStateRef(heap)
       IN  /\ heap' = [heap EXCEPT ![r] = [allocated |-> TRUE,
                                           st |-> createConverterState]]
           /\ exchanges' = [exchanges EXCEPT ![e] =
                  [started |-> TRUE, ref |-> r, client |-> <<>>,
                   fed |-> <<>>, hpc |-> "reading"]]
    /\ UNCHANGED <<state, client, hpc, fed, calls, response, openAIResponse>>
    /\ UNCHANGED authVars

IsoTurnDone(e, line, t) ==
    /\ heap' = [heap EXCEPT ![exchanges[e].ref].st = t.state]
    /\ exchanges' = [exchanges EXCEPT
          ![e].client = t.client,
          ![e].fed = Append(@, line),
          ![e].hpc = IF t.raised THEN "released" ELSE "reading"]

\* One turn of the while loop of exchange e, between two awaits.
IsoRead(e, line) ==
    /\ exchanges[e].hpc = "reading"
    /\ Len(exchanges[e].fed) < MaxIsoFrames
    /\ IsoTurnDone(e, line,
                   LoopTurn(heap[exchanges[e].ref].st, exchanges[e].client,
                            Len(exchanges[e].fed), <<line>>))
    /\ UNCHANGED <<state, client, hpc, fed, calls, response, openAIResponse>>
    /\ UNCHANGED authVars

\* reader.read() of exchange e returns done or rejects: releaseLock().
IsoEnd(e) ==
    /\ exchanges[e].hpc = "reading"
    /\ exchanges' = [exchanges EXCEPT ![e].hpc = "released"]
    /\ UNCHANGED <<state, client, hpc, fed, calls, response, openAIResponse,
                   heap, req, credentials, auth>>

IsoStarts == \E e \in Exchanges : IsoStart(e)
IsoReads == \E e \in Exchanges, line \in IsoLines : IsoRead(e, line)
IsoEnds == \E e \in Exchanges : IsoEnd(e)

NextIso == IsoStarts \/ IsoReads \/ IsoEnds

SpecIso == InitStream /\ [][NextIso]_vars

\* What an exchange that read these lines writes and holds when it runs alone.
Alone(lines) == LoopTurn(createConverterState, <<>>, 0, lines)

\* C11: each streamed request has a converterState of its own, and however
\* the turns of two concurrent exchanges interleave, each exchange has
\* written exactly the chunks, and holds exactly the tracker and metrics, it
\* would have after reading its own lines alone.
C11_ExchangesIsolated ==
    /\ \A e1, e2 \in Exchanges :
          exchanges[e1].started /\ exchanges[e2].started /\ e1 # e2
              => exchanges[e1].ref # exchanges[e2].ref
    /\ \A e \in Exchanges :
          exchanges[e].started =>
              /\ exchanges[e].client = Alone(exchanges[e].fed).client
              /\ heap[exchanges[e].ref].st = Alone(exchanges[e].fed).state

\* Both exchanges are under way with different lines read: one has opened a
\* tool call, the other has sent an argument delta without opening one.
C11_Witness ==
    /\ exchanges[1].fed = <<DataLine(ToolBlockStart(0)), DataLine(MessageStart)>>
    /\ exchanges[2].fed = <<DataLine(ToolDelta(0, <<"a">>)), DataLine(MessageStop)>>
    /\ exchanges[2].client # <<>>
    /\ heap[exchanges[1].ref].st # heap[exchanges[2].ref].st

\* ------------------------------------------------------------------------
\* Properties of the lines of one streamed exchange (SpecStream)
\* ------------------------------------------------------------------------

\* What was written, without the position of the line it came from.
Payload(records) ==
    [k \in 1..Len(records) |->
        [kind |-> records[k].kind, data |-> records[k].data]]

WellFormed(lines) == SelectSeq(lines, LAMBDA l : l.kind # "malformed")

\* C14: a line that fails to decode as a frame gives no chunk and no terminal,
\* raises no error to the caller and leaves the exchange state as it was, and
\* the well-formed lines before and after it, in the same read or not, are
\* processed as if it were not there.
C14_MalformedSkipped ==
    /\ LET r == processChunk(state, <<NoiseLine("malformed")>>)
       IN  ~r.raised /\ r.results = <<>> /\ r.state = state
    /\ \A j \in 1..Len(client) : fed[client[j].src].kind # "malformed"
    /\ Payload(client) = Payload(Alone(WellFormed(fed)).client)
    /\ state = Alone(WellFormed(fed)).state

\* A malformed line between a text delta and a tool_use start: the chunks of
\* the two, and the accumulator of the start.
C14_Witness ==
    /\ fed = <<DataLine(TextDelta), NoiseLine("malformed"),
               DataLine(ToolBlockStart(0))>>
    /\ Len(client) = 2
    /\ client[1].src = 1 /\ client[2].src = 3
    /\ state.toolCallsTracker[0].present

\* ------------------------------------------------------------------------
\* Properties of argument deltas without accumulator (SpecDelta)
\* ------------------------------------------------------------------------

\* The line just read is a content_block_delta with partial_json for block i.
ArgumentDeltaRead(i) ==
    /\ Len(fed') = Len(fed) + 1
    /\ LET line == fed'[Len(fed')]
       IN  /\ line.kind = "data"
           /\ line.data.type = "content_block_delta"
           /\ IndexOf(line.data) = i
           /\ line.data.delta.text = <<>>

\* C15: a content_block_delta carrying a tool-argument fragment for a block
\* index that has no accumulator writes no chunk, creates no accumulator and
\* changes no accumulator.
C15_NoAccumulatorNoEffect ==
    [][\A i \in Indices :
          ArgumentDeltaRead(i) /\ ~state.toolCallsTracker[i].present
              => /\ client' = client
                 /\ state'.toolCallsTracker = state.toolCallsTracker]_vars

\* Block 0 has an accumulator with text in it, block 1 has none and two lines
\* read after the start of block 0 wrote nothing: deltas for block 1.
C15_Witness ==
    /\ Len(fed) = 4
    /\ fed[1] = DataLine(ToolBlockStart(0))
    /\ fed[3] = DataLine(ToolDelta(1, <<"a", "b">>))
    /\ fed[4] = DataLine(ToolDelta(1, <<"a", "b">>))
    /\ Len(client) = 2
    /\ Buffer(0) # <<>>
    /\ ~state.toolCallsTracker[1].present

\* ------------------------------------------------------------------------
\* Properties of processChunk on anomalous input (SpecStream)
\* ------------------------------------------------------------------------

\* A ProcessResult is { type: 'done' } or { type: 'chunk', data } with data a
\* chunk that has an id.
WellFormedResult(result) ==
    \/ result.type = "done"
    \/ /\ result.type = "chunk"
       /\ result.data.present
       /\ result.data.id # <<>>

\* A fragment of three lines: one that does not parse, a message_start whose
\* message has no id, and the given line.
AnomalousFragment(line) ==
    <<NoiseLine("malformed"), DataLine(MessageStartNoId), line>>

\* C16: whatever the exchange state and whatever the fragment, processChunk
\* throws nothing to its caller and returns a list, possibly empty, of
\* results each of which is a done or a chunk with an id.  Checked in every
\* reachable state on every line, alone after two anomalous lines.
C16_NeverThrows ==
    \A line \in StreamLines :
        LET r == processChunk(state, AnomalousFragment(line))
        IN  /\ ~r.raised
            /\ \A k \in 1..Len(r.results) : WellFormedResult(r.results[k])

\* The loop read a message_start without id and a malformed line and is
\* still reading: the message_stop after them got its usage chunk and marker.
C16_Witness ==
    /\ fed = <<DataLine(MessageStartNoId), NoiseLine("malformed"),
               DataLine(MessageStop)>>
    /\ hpc = "reading"
    /\ Len(client) = 2
    /\ client[2].kind = "[DONE]"

\* ------------------------------------------------------------------------
\* SpecSplit: one exchange whose reads may end in the middle of a line
\* ------------------------------------------------------------------------

\* The lines and pieces of lines one exchange of SpecSplit may read in all.
MaxSplitLines == 4

SplitFrames == {MessageStart, TextDelta, MessageDelta, MessageStop}

\* The last read ended in the middle of a line.
Pending == fed # <<>> /\ fed[Len(fed)].kind = "head"

splitRest ==
    <<calls, response, openAIResponse, heap, exchanges, req, credentials, auth>>

\* reader.read() delivers one whole line.
ReadWhole ==
    /\ ~Pending
    /\ Len(fed) < MaxSplitLines
    /\ \E data \in SplitFrames : HandlerStep(<<DataLine(data)>>)
    /\ UNCHANGED splitRest

\* reader.read() delivers bytes that stop in the middle of a data line.
ReadHead ==
    /\ ~Pending
    /\ Len(fed) + 1 < MaxSplitLines
    /\ \E data \in SplitFrames : HandlerStep(<<HeadPiece(data)>>)
    /\ UNCHANGED splitRest

\* The next reader.read() delivers the rest of that line.
ReadTail ==
    /\ Pending
    /\ HandlerStep(<<TailPiece(fed[Len(fed)].data)>>)
    /\ UNCHANGED splitRest

SplitEnd ==
    /\ ~Pending
    /\ UpstreamEnd
    /\ UNCHANGED splitRest

NextSplit == ReadWhole \/ ReadHead \/ ReadTail \/ SplitEnd

SpecSplit == InitStream /\ [][NextSplit]_vars

\* The frames upstream has sent in full, each as one whole line.
SentLines(lines) ==
    LET sent == SelectSeq(lines, LAMBDA l : l.kind \in {"data", "tail"})
    IN  [k \in 1..Len(sent) |-> DataLine(sent[k].data)]

\* C17, as claimed: however the upstream bytes are split into reads, the
\* handler gives processChunk complete lines only, so that no frame is lost
\* for spanning two reads: the exchange has written what it would have
\* written had every frame sent in full arrived as one whole line.
C17_NoFrameLostToSplit ==
    Payload(client) = Payload(Alone(SentLines(fed)).client)

\* ------------------------------------------------------------------------
\* SpecMeta: one exchange fed message_start frames and frames with usage
\* ------------------------------------------------------------------------

\* The lines one exchange of SpecMeta may read in all.
MaxMetaFrames == 3

MetaLines ==
    { DataLine(MessageStart), DataLine(MessageStartNoId),
      DataLine(MessageStartNoMessage), DataLine(MessageStartOddId),
      DataLine(MessageDelta), DataLine(PingWithUsage),
      DataLine(MessageStopWithUsage), DataLine(TextDelta) }

ReadMeta ==
    /\ \E lines \in ReadsOf(MetaLines) :
          /\ Len(fed) + Len(lines) <= MaxMetaFrames
          /\ HandlerStep(lines)
    /\ UNCHANGED splitRest

MetaEnd == UpstreamEnd /\ UNCHANGED splitRest

NextMeta == ReadMeta \/ MetaEnd

SpecMeta == InitStream /\ [][NextMeta]_vars

\* ------------------------------------------------------------------------
\* Properties of the metrics of one streamed exchange (SpecMeta)
\* ------------------------------------------------------------------------

\* The stop reason updateMetrics would keep from one event: the top-level
\* one, then the delta's (of a message_delta only, unless anyKind), then the
\* message's, the later assignment winning.
StopReasonOf(data, anyKind) ==
    IF Truthy(data.message.stop_reason) THEN data.message.stop_reason
    ELSE IF (anyKind \/ data.type = "message_delta")
            /\ Truthy(data.delta.stop_reason)
    THEN data.delta.stop_reason
    ELSE IF Truthy(data.stop_reason) THEN data.stop_reason
    ELSE Null

\* The stop reason carried by the last of the lines that carries one.
RECURSIVE LastStopReason(_, _)
LastStopReason(lines, countDropped) ==
    IF lines = <<>> THEN Null
    ELSE LET last == lines[Len(lines)]
             carried == IF IsEvent(last)
                           /\ (countDropped \/ ~DroppedKind(last.data))
                        THEN StopReasonOf(last.data, countDropped)
                        ELSE Null
         IN  IF carried # Null THEN carried
             ELSE LastStopReason(SubSeq(lines, 1, Len(lines) - 1),
                                 countDropped)

\* The metrics are what the frames carried, and every usage chunk written
\* for the frame at position k counts the usage of the frames up to and
\* including k.
MetricsFollowFrames(countDropped) ==
    /\ \A f \in CounterFields :
          state.metricsData[f] = SumCarried(fed, f, countDropped)
    /\ state.metricsData.stop_reason = LastStopReason(fed, countDropped)
    /\ \A j \in 1..Len(client) :
          client[j].kind = "data" /\ client[j].data.usage.present =>
              LET upTo == SubSeq(fed, 1, client[j].src)
              IN  /\ client[j].data.usage.prompt_tokens
                        = SumCarried(upTo, "input_tokens", countDropped)
                  /\ client[j].data.usage.completion_tokens
                        = SumCarried(upTo, "output_tokens", countDropped)

\* C18, as claimed: every frame that carries usage or stop-reason fields
\* updates the metrics whatever its kind, ping, content_block_stop and text
\* content_block_start included, and does so before its chunks are built, so
\* that the usage chunk of a message_stop counts that frame's own usage.
C18_EveryFrameUpdatesMetrics == MetricsFollowFrames(TRUE)

\* C18, amended: every frame that is not of a dropped kind (ping,
\* content_block_stop, text content_block_start) and carries usage or a stop
\* reason updates the metrics, before its chunks are built, so that the
\* usage chunk of a message_stop counts that frame's own usage; usage on a
\* frame of a dropped kind is not absorbed.
C18_AbsorbedBeforeChunks == MetricsFollowFrames(FALSE)

\* A ping with usage goes uncounted; the message_stop that carries 3 output
\* tokens and a stop reason writes a usage chunk that has them.
C18_Witness ==
    /\ fed = <<DataLine(MessageDelta), DataLine(PingWithUsage),
               DataLine(MessageStopWithUsage)>>
    /\ state.metricsData.stop_reason = "max_tokens"
    /\ Len(client) = 3
    /\ client[2].data.usage.present
    /\ client[2].data.usage.prompt_tokens = 1
    /\ client[2].data.usage.completion_tokens = 5

\* ------------------------------------------------------------------------
\* Properties of ignored kinds (SpecStream) and of message_start (SpecMeta)
\* ------------------------------------------------------------------------

IsIgnored(line) ==
    line.kind = "data" /\ line.data.type \in {"ping", "content_block_stop"}

\* C19: a ping or content_block_stop frame gives no output and leaves the
\* tool-call tracker and the metrics as they were: the exchange has written
\* and holds what it would without those frames, and in every reachable
\* state processing one more of them returns nothing and the same state.
C19_IgnoredKindsNoEffect ==
    /\ \A d \in {PingWithUsage, BlockStop} :
          LET r == processChunk(state, <<DataLine(d)>>)
          IN  r.results = <<>> /\ r.state = state /\ ~r.raised
    /\ \A j \in 1..Len(client) : ~IsIgnored(fed[client[j].src])
    /\ LET others == SelectSeq(fed, LAMBDA l : ~IsIgnored(l))
       IN  /\ state = Alone(others).state
           /\ Payload(client) = Payload(Alone(others).client)

\* A ping that carries usage and a content_block_stop after a message_delta:
\* one chunk written, the counters those of the message_delta alone.
C19_Witness ==
    /\ fed = <<DataLine(MessageDelta), DataLine(PingWithUsage),
               DataLine(BlockStop)>>
    /\ Len(client) = 1
    /\ state.metricsData.input_tokens = 1
    /\ state.metricsData.cache_read_input_tokens = 1

IsMessageStart(line) == line.kind = "data" /\ line.data.type = "message_start"

\* The positions of the records written for the line at position k.
WrittenFor(k) == {j \in 1..Len(client) : client[j].src = k}

\* The record is a role announcement with this id: role 'assistant', empty
\* content, null finish_reason, no tool call, no usage.
IsRoleChunk(record, id) ==
    /\ record.kind = "data"
    /\ record.data.id = id
    /\ record.data.role = "assistant"
    /\ record.data.has_content /\ record.data.content = <<>>
    /\ record.data.finish_reason = Null
    /\ ~record.data.tool_call.present
    /\ ~record.data.usage.present

\* 'chatcmpl-' and the upstream id without its prefix 'msg_'.
PrefixStripped(id) ==
    <<"chatcmpl-">> \o (IF id # <<>> /\ Head(id) = "msg_" THEN Tail(id) ELSE id)

\* 'chatcmpl-' and the upstream id without its first 'msg_', for the ids of
\* MetaLines.
FirstMsgRemoved(id) ==
    IF id = MsgId THEN <<"chatcmpl-", "01">>
    ELSE IF id = OddMsgId THEN <<"chatcmpl-", "x", "01">>
    ELSE <<"chatcmpl-">> \o id

\* C20, as claimed: every message_start frame gets exactly one record, a role
\* announcement whose id is 'chatcmpl-' and the upstream message id with the
\* prefix 'msg_' stripped, and that id is the exchange's client-facing id
\* from then on.
C20_EveryMessageStartAnnounces ==
    /\ \A k \in 1..Len(fed) :
          IsMessageStart(fed[k]) =>
              /\ Cardinality(WrittenFor(k)) = 1
              /\ \A j \in WrittenFor(k) :
                    IsRoleChunk(client[j], PrefixStripped(fed[k].data.message.id))
    /\ fed # <<>> /\ IsMessageStart(fed[Len(fed)])
          => state.metricsData.openAIId
                 = PrefixStripped(fed[Len(fed)].data.message.id)

HasMessageId(line) ==
    IsMessageStart(line) /\ line.data.message.present
        /\ line.data.message.has_id

\* C20, amended: every message_start frame whose message carries an id gets
\* exactly one record, a role announcement whose id is 'chatcmpl-' and the
\* upstream id with its first 'msg_' removed, and that id becomes the
\* exchange's client-facing id; a message_start without message, or whose
\* message has no id, gets no record and leaves the client-facing id alone.
C20_MessageStartWithIdAnnounces ==
    /\ \A k \in 1..Len(fed) :
          IsMessageStart(fed[k]) =>
              IF HasMessageId(fed[k])
              THEN /\ Cardinality(WrittenFor(k)) = 1
                   /\ \A j \in WrittenFor(k) :
                         IsRoleChunk(client[j],
                                     FirstMsgRemoved(fed[k].data.message.id))
              ELSE WrittenFor(k) = {}
    /\ LET withId == SelectSeq(fed, HasMessageId)
       IN  state.metricsData.openAIId =
               IF withId = <<>> THEN <<>>
               ELSE FirstMsgRemoved(withId[Len(withId)].data.message.id)

\* A message_start with id, then one without message and one without id: one
\* role announcement, and the id of the first is still the exchange's id.
C20_Witness ==
    /\ fed = <<DataLine(MessageStart), DataLine(MessageStartNoMessage),
               DataLine(MessageStartNoId)>>
    /\ Len(client) = 1
    /\ client[1].data.id = <<"chatcmpl-", "01">>
    /\ state.metricsData.openAIId = <<"chatcmpl-", "01">>

\* ------------------------------------------------------------------------
\* SpecTools: one exchange fed tool_use starts with different ids, argument
\* deltas and text deltas, one line per read
\* ------------------------------------------------------------------------

\* The lines one exchange of SpecTools may read in all.
MaxToolFrames == 4

ToolStartOf(i, id, name) ==
    [Event("content_block_start") EXCEPT
       !.has_index = TRUE, !.index = i,
       !.content_block = [type |-> "tool_use", id |-> id, name |-> name]]

ToolLines ==
    { DataLine(ToolStartOf(0, "t1", "lookup")),
      DataLine(ToolStartOf(0, "t2", "fetch")),
      DataLine(ToolStartOf(1, "t1", "lookup")),
      DataLine(ToolStartOf(0, Null, "lookup")),
      DataLine(ToolDelta(0, <<"a">>)), DataLine(ToolDelta(0, <<"a", "b">>)),
      DataLine(ToolDelta(1, <<"a">>)), DataLine(ToolDelta(0, <<>>)),
      DataLine(TextDelta) }

ReadTool ==
    /\ Len(fed) < MaxToolFrames
    /\ \E line \in ToolLines : HandlerStep(<<line>>)
    /\ UNCHANGED splitRest

NextTools == ReadTool

SpecTools == InitStream /\ [][NextTools]_vars

\* This step read one line.
OneLineRead == Len(fed') = Len(fed) + 1

\* The event of the line this step read.
JustRead == fed'[Len(fed')].data

\* This step wrote exactly one record, after those written before.
OneRecordWritten ==
    /\ Len(client') = Len(client) + 1
    /\ SubSeq(client', 1, Len(client)) = client
    /\ client'[Len(client')].kind = "data"

\* The chunk this step wrote.
JustWritten == client'[Len(client')].data

IsToolStart(data) ==
    data.type = "content_block_start" /\ data.content_block.type = "tool_use"

\* C21: every content_block_start of kind tool_use creates an accumulator at
\* the frame's block index, with the block's id and name ('' for one the
\* block lacks) and an empty buffer, and writes exactly one chunk, which
\* introduces a tool call at that index with the block's id and name and
\* empty argument text.
C21_ToolStartOpensSlot ==
    [][OneLineRead /\ IsToolStart(JustRead) =>
          LET block == JustRead.content_block
              i == JustRead.index
          IN  /\ state'.toolCallsTracker[i] =
                    [present |-> TRUE,
                     id |-> IF block.id = Null THEN "" ELSE block.id,
                     name |-> block.name,
                     arguments |-> <<>>]
              /\ OneRecordWritten
              /\ JustWritten.tool_call =
                    [present |-> TRUE, index |-> i, id |-> block.id,
                     name |-> block.name, arguments |-> <<>>]
              /\ ~JustWritten.has_content
              /\ JustWritten.finish_reason = Null]_vars

\* After a text delta, a tool_use start for block 1: the accumulator of
\* block 1 and the chunk that introduces it.
C21_Witness ==
    /\ fed = <<DataLine(TextDelta), DataLine(ToolStartOf(1, "t1", "lookup"))>>
    /\ state.toolCallsTracker[1].id = "t1"
    /\ state.toolCallsTracker[1].name = "lookup"
    /\ Len(client) = 2
    /\ client[2].data.tool_call.index = 1
    /\ client[2].data.tool_call.id = "t1"

\* C22: an index has one accumulator at most, and a tool_use start for an
\* index that already has one replaces it: the accumulator then has the new
\* id and name and an empty buffer, nothing of the old buffer, and the
\* accumulators at the other indices are as they were.
C22_SecondStartOverwrites ==
    [][OneLineRead /\ IsToolStart(JustRead)
          /\ state.toolCallsTracker[JustRead.index].present =>
          LET block == JustRead.content_block
              i == JustRead.index
          IN  /\ state'.toolCallsTracker[i].id
                    = (IF block.id = Null THEN "" ELSE block.id)
              /\ state'.toolCallsTracker[i].name = block.name
              /\ state'.toolCallsTracker[i].arguments = <<>>
              /\ \A j \in Indices \ {i} :
                    state'.toolCallsTracker[j] = state.toolCallsTracker[j]]_vars

\* Block 1 and block 0 opened, text in the buffer of block 0, then block 0
\* opened again under another id: its buffer is empty, block 1 is as before.
C22_Witness ==
    /\ fed = <<DataLine(ToolStartOf(1, "t1", "lookup")),
               DataLine(ToolStartOf(0, "t1", "lookup")),
               DataLine(ToolDelta(0, <<"a">>)),
               DataLine(ToolStartOf(0, "t2", "fetch"))>>
    /\ state.toolCallsTracker[0].id = "t2"
    /\ state.toolCallsTracker[0].arguments = <<>>
    /\ state.toolCallsTracker[1].id = "t1"

IsArgumentDelta(data) ==
    data.type = "content_block_delta" /\ data.delta.text = <<>>

\* What the Delta Resolution Algorithm emits for fragment f on buffer b.
Resolved(b, f) ==
    IF b # <<>> /\ StartsWith(f, b) THEN Substring(f, Len(b)) ELSE f

\* C23, as claimed: every content_block_delta with a tool-argument fragment,
\* an empty one included, for an index that has an accumulator writes exactly
\* one chunk, whose tool-call entry is at that index and has the resolved
\* fragment and no id or name.
C23_EveryFragmentOneChunk ==
    [][OneLineRead /\ IsArgumentDelta(JustRead)
          /\ state.toolCallsTracker[JustRead.index].present =>
          /\ OneRecordWritten
          /\ JustWritten.tool_call =
                [present |-> TRUE, index |-> JustRead.index, id |-> Null,
                 name |-> Null,
                 arguments |->
                     Resolved(state.toolCallsTracker[JustRead.index].arguments,
                              JustRead.delta.partial_json)]]_vars

\* C23, amended: every content_block_delta with a non-empty tool-argument
\* fragment for an index that has an accumulator writes exactly one chunk,
\* whose tool-call entry is at that index and has the resolved fragment and
\* no id or name; an empty fragment writes no chunk and changes no state.
C23_NonEmptyFragmentOneChunk ==
    [][OneLineRead /\ IsArgumentDelta(JustRead)
          /\ state.toolCallsTracker[JustRead.index].present =>
          IF JustRead.delta.partial_json # <<>>
          THEN /\ OneRecordWritten
               /\ JustWritten.tool_call =
                     [present |-> TRUE, index |-> JustRead.index,
                      id |-> Null, name |-> Null,
                      arguments |->
                          Resolved(
                              state.toolCallsTracker[JustRead.index].arguments,
                              JustRead.delta.partial_json)]
          ELSE client' = client /\ state' = state]_vars

\* Block 0 opened, 'a' then 'ab' then an empty fragment sent: the chunks of
\* the start, of 'a' and of the resolved 'b', and none for the empty one.
C23_Witness ==
    /\ fed = <<DataLine(ToolStartOf(0, "t1", "lookup")),
               DataLine(ToolDelta(0, <<"a">>)),
               DataLine(ToolDelta(0, <<"a", "b">>)),
               DataLine(ToolDelta(0, <<>>))>>
    /\ Len(client) = 3
    /\ client[3].data.tool_call.arguments = <<"b">>
    /\ client[3].data.tool_call.id = Null

IsTextDelta(data) ==
    data.type = "content_block_delta" /\ data.delta.text # <<>>
        /\ data.delta.partial_json = <<>>

\* C24: every content_block_delta that carries a text fragment (a non-empty
\* text, and no tool-argument fragment) writes exactly one chunk, whose
\* content is that very text, and leaves every accumulator as it was.
C24_TextDeltaOneChunk ==
    [][OneLineRead /\ IsTextDelta(JustRead) =>
          /\ OneRecordWritten
          /\ JustWritten.has_content
          /\ JustWritten.content = JustRead.delta.text
          /\ ~JustWritten.tool_call.present
          /\ state'.toolCallsTracker = state.toolCallsTracker]_vars

\* A text delta between the start of block 0 and an argument delta for it:
\* the text chunk, and the buffer of block 0 untouched by it.
C24_Witness ==
    /\ fed = <<DataLine(ToolStartOf(0, "t1", "lookup")), DataLine(TextDelta),
               DataLine(ToolDelta(0, <<"a">>))>>
    /\ Len(client) = 3
    /\ client[2].data.content = <<"h", "i">>
    /\ state.toolCallsTracker[0].arguments = <<"a">>

\* ------------------------------------------------------------------------
\* SpecChunks: one exchange fed frames of every kind that writes a chunk
\* ------------------------------------------------------------------------

\* The lines one exchange of SpecChunks may read in all.
MaxChunkFrames == 3

\* A message_delta whose usage has cache tokens only, and no stop reason.
CacheOnlyDelta ==
    [Event("message_delta") EXCEPT !.usage = Usage(0, 0, 2, 1)]

ChunkLines ==
    { DataLine(MessageStart), DataLine(MessageStartNoMessage),
      DataLine(MessageStartOddId), DataLine(MessageStartNoId),
      DataLine(ToolBlockStart(0)), DataLine(TextDelta),
      DataLine(MessageDelta), DataLine(CacheOnlyDelta),
      DataLine(MessageStop), DataLine(MessageStopWithUsage) }

ReadChunks ==
    /\ \E lines \in ReadsOf(ChunkLines) :
          /\ Len(fed) + Len(lines) <= MaxChunkFrames
          /\ HandlerStep(lines)
    /\ UNCHANGED splitRest

ChunksEnd == UpstreamEnd /\ UNCHANGED splitRest

NextChunks == ReadChunks \/ ChunksEnd

SpecChunks == InitStream /\ [][NextChunks]_vars

IsMessageStop(line) == line.kind = "data" /\ line.data.type = "message_stop"

\* The records written for the line at position k, in the order written.
RecordsFor(k) == SelectSeq(client, LAMBDA r : r.src = k)

\* The record is a usage chunk with these counts and nothing else in it.
IsUsageChunk(record, input, output) ==
    /\ record.kind = "data"
    /\ record.data.usage =
          [present |-> TRUE, prompt_tokens |-> input,
           completion_tokens |-> output, total_tokens |-> input + output]
    /\ ~record.data.has_content
    /\ ~record.data.tool_call.present
    /\ record.data.finish_reason = Null

\* For every message_stop: when `counted` holds of the usage absorbed up to
\* and including it, a usage chunk with input_tokens, output_tokens and
\* their sum and then the terminal marker, otherwise the marker alone.
UsageChunkWhen(counted(_)) ==
    \A k \in 1..Len(fed) :
        IsMessageStop(fed[k]) =>
            LET upTo == SubSeq(fed, 1, k)
                records == RecordsFor(k)
            IN  IF counted(upTo)
                THEN /\ Len(records) = 2
                     /\ IsUsageChunk(records[1],
                                     SumCarried(upTo, "input_tokens", FALSE),
                                     SumCarried(upTo, "output_tokens", FALSE))
                     /\ records[2].kind = "[DONE]"
                ELSE /\ Len(records) = 1
                     /\ records[1].kind = "[DONE]"

\* The records of one line are next to each other in what the client got.
RecordsAdjacent ==
    \A j \in 1..Len(client) - 1 : client[j].src <= client[j + 1].src

AnyCounter(lines) ==
    \E f \in CounterFields : SumCarried(lines, f, FALSE) # 0

InputOrOutput(lines) ==
    \/ SumCarried(lines, "input_tokens", FALSE) # 0
    \/ SumCarried(lines, "output_tokens", FALSE) # 0

\* C25, as claimed: on message_stop a usage chunk is written if and only if
\* some token counter, cache counters included, is not zero, with
\* prompt_tokens = input_tokens, completion_tokens = output_tokens and
\* total_tokens their sum, and then the terminal marker, the usage chunk
\* right before it.
C25_UsageChunkIfAnyCounter == UsageChunkWhen(AnyCounter) /\ RecordsAdjacent

\* C25, amended: on message_stop a usage chunk is written if and only if
\* input_tokens or output_tokens is not zero (the cache counters do not
\* count), with prompt_tokens = input_tokens, completion_tokens =
\* output_tokens and total_tokens their sum, and then the terminal marker,
\* the usage chunk right before it.
C25_UsageChunkIfInputOrOutput ==
    UsageChunkWhen(InputOrOutput) /\ RecordsAdjacent

\* Cache tokens only, then message_stop: the marker alone.  Then a
\* message_stop that carries 3 output tokens: usage chunk 0/3/3 and marker.
C25_Witness ==
    /\ fed = <<DataLine(CacheOnlyDelta), DataLine(MessageStop),
               DataLine(MessageStopWithUsage)>>
    /\ state.metricsData.cache_read_input_tokens = 1
    /\ Len(client) = 3
    /\ client[1].kind = "[DONE]"
    /\ client[2].data.usage.total_tokens = 3
    /\ client[3].kind = "[DONE]"

\* The positions up to k of the lines for which `has` holds.
Before(k, has(_)) == {m \in 1..k : has(fed[m])}

Last(positions) == CHOOSE m \in positions : \A n \in positions : n <= m

\* C30, as claimed: every chunk written once a message_start frame has been
\* processed, its own role chunk and the tool-call, text, finish-reason and
\* usage chunks after it, has the id derived from the most recently
\* processed message_start.
C30_IdOfLastMessageStart ==
    \A j \in 1..Len(client) :
        client[j].kind = "data" /\ Before(client[j].src, IsMessageStart) # {} =>
            client[j].data.id =
                PrefixStripped(
                    fed[Last(Before(client[j].src, IsMessageStart))]
                        .data.message.id)

\* C30, amended: every chunk written once a message_start whose message
\* carries an id has been processed has the id derived from the most recent
\* such message_start ('chatcmpl-' and the upstream id without its first
\* 'msg_'); a message_start without message, or without id, sets no id, and
\* chunks written before any id was set have a made-up id each.
C30_IdOfLastMessageStartWithId ==
    \A j \in 1..Len(client) :
        client[j].kind = "data" =>
            client[j].data.id =
                IF Before(client[j].src, HasMessageId) # {}
                THEN FirstMsgRemoved(
                         fed[Last(Before(client[j].src, HasMessageId))]
                             .data.message.id)
                ELSE FallbackId

\* message_start, a tool_use start, a message_stop with usage: the role
\* chunk, the tool-call chunk and the usage chunk under one id.
C30_Witness ==
    /\ fed = <<DataLine(MessageStart), DataLine(ToolBlockStart(0)),
               DataLine(MessageStopWithUsage)>>
    /\ Len(client) = 4
    /\ client[1].data.role = "assistant"
    /\ client[2].data.tool_call.present
    /\ client[3].data.usage.present
    /\ \A j \in 1..3 : client[j].data.id = <<"chatcmpl-", "01">>

\* ------------------------------------------------------------------------
\* getAccessToken and refreshToken
\* ------------------------------------------------------------------------

\* refreshToken: the token endpoint answers with new tokens, which are
\* stored, or the call fails and null (0) is returned.
refreshToken(cred, ok) ==
    IF ok
    THEN [token |-> cred.access + 1,
          credentials |-> [present |-> TRUE, expired |-> FALSE,
                           has_refresh |-> TRUE, access |-> cred.access + 1,
                           refresh |-> cred.refresh + 1]]
    ELSE [token |-> 0, credentials |-> cred]

\* getAccessToken, run without interruption: the token it returns (0 for
\* null) and what Redis holds afterwards.
getAccessToken(cred, ok) ==
    IF ~cred.present THEN [token |-> 0, credentials |-> cred]
    ELSE IF ~cred.expired THEN [token |-> cred.access, credentials |-> cred]
    ELSE IF cred.has_refresh THEN refreshToken(cred, ok)
    ELSE [token |-> 0, credentials |-> cred]

\* ------------------------------------------------------------------------
\* SpecRequest: messagesFn from the arrival of a request to its response
\* ------------------------------------------------------------------------

\* The requests that arrive in all, and the lines a streamed response has.
MaxRequests == 2
MaxReqFrames == 1

\* process.env.API_KEY
API_KEY == "key"

\* The bearer of the Authorization header: absent, the API key, another.
ApiKeys == {Null, "key", "bad"}

\* What fetch of the upstream URL does: a 2xx response, a 401, another
\* error status, or it rejects.
FetchOutcomes == {"ok", "401", "500", "throws"}

\* What Redis may hold when the server starts.
StoredCredentials ==
    { NoCredentials,
      [present |-> TRUE, expired |-> FALSE, has_refresh |-> TRUE,
       access |-> 1, refresh |-> 1],
      [present |-> TRUE, expired |-> TRUE, has_refresh |-> TRUE,
       access |-> 1, refresh |-> 1],
      [present |-> TRUE, expired |-> TRUE, has_refresh |-> FALSE,
       access |-> 1, refresh |-> 0] }

\* return c.json(..., status)
Respond(r, status) == [r EXCEPT !.pc = "done", !.status = status]

\* if (apiKey && apiKey !== process.env.API_KEY)
KeyRejected(r) == Truthy(r.apiKey) /\ r.apiKey # API_KEY

\* The API key test and the Cursor key-check bypass.
AfterGate(r) ==
    IF KeyRejected(r) THEN Respond(r, 401)
    ELSE IF r.cursorCheck THEN Respond(r, 200)
    ELSE [r EXCEPT !.pc = "lookup"]

\* const oauthToken = await getAccessToken(); if (!oauthToken) return 401
AfterLookup(r, token) ==
    IF token = 0
    THEN Respond([r EXCEPT !.log = Append(@, "getAccessToken"),
                           !.oauthToken = token], 401)
    ELSE [r EXCEPT !.log = Append(@, "getAccessToken"),
                   !.oauthToken = token, !.pc = "fetch"]

\* A buggy variant of AfterFetch: on an upstream 401 the handler looks the
\* token up again and retries.
AfterFetchRetrying(r, outcome) ==
    IF outcome = "401"
    THEN [r EXCEPT !.log = Append(@, "fetch"), !.pc = "lookup"]
    ELSE IF outcome = "ok" /\ r.isStreaming
    THEN [r EXCEPT !.log = Append(@, "fetch"), !.pc = "streaming",
                   !.status = 200]
    ELSE Respond([r EXCEPT !.log = Append(@, "fetch")],
                 IF outcome = "ok" THEN 200 ELSE 500)

\* const response = await fetch(...): an error status is passed on (401 with
\* a message of the handler), a rejection gives 500 'Proxy error', an ok
\* response is streamed or converted.
AfterFetch(r, outcome) ==
    IF outcome = "ok" /\ r.isStreaming
    THEN [r EXCEPT !.log = Append(@, "fetch"), !.pc = "streaming",
                   !.status = 200]
    ELSE Respond([r EXCEPT !.log = Append(@, "fetch")],
                 IF outcome = "ok" THEN 200
                 ELSE IF outcome = "401" THEN 401 ELSE 500)

streamRest == <<calls, response, openAIResponse, heap, exchanges, auth>>

\* A request arrives at /v1/chat/completions or /v1/messages.
Arrive ==
    /\ req.pc \in {"idle", "done"}
    /\ req.n < MaxRequests
    /\ \E k \in ApiKeys, cursor \in BOOLEAN, streaming \in BOOLEAN :
          req' = [NoRequest EXCEPT !.pc = "gate", !.n = req.n + 1,
                                   !.apiKey = k, !.cursorCheck = cursor,
                                   !.isStreaming = streaming]
    /\ state' = createConverterState
    /\ client' = <<>>
    /\ fed' = <<>>
    /\ hpc' = "idle"
    /\ UNCHANGED <<credentials, auth, calls, response, openAIResponse, heap,
                   exchanges>>

Gate ==
    /\ req.pc = "gate"
    /\ req' = AfterGate(req)
    /\ UNCHANGED <<state, client, hpc, fed, credentials>>
    /\ UNCHANGED streamRest

TokenReturned(r) ==
    /\ req' = AfterLookup(req, r.token)
    /\ credentials' = r.credentials

Lookup ==
    /\ req.pc = "lookup"
    /\ \E ok \in BOOLEAN : TokenReturned(getAccessToken(credentials, ok))
    /\ UNCHANGED <<state, client, hpc, fed>>
    /\ UNCHANGED streamRest

\* The handler goes on with r; a streamed response starts the stream callback.
FetchReturned(r) ==
    /\ req' = r
    /\ hpc' = IF r.pc = "streaming" THEN "reading" ELSE hpc

Fetch ==
    /\ req.pc = "fetch"
    /\ \E outcome \in FetchOutcomes : FetchReturned(AfterFetch(req, outcome))
    /\ UNCHANGED <<state, client, fed, credentials>>
    /\ UNCHANGED streamRest

ReqRead ==
    /\ req.pc = "streaming"
    /\ Len(fed) < MaxReqFrames
    /\ \E data \in {TextDelta, MessageStop} : HandlerStep(<<DataLine(data)>>)
    /\ UNCHANGED splitRest

ReqEnd ==
    /\ req.pc = "streaming"
    /\ UpstreamEnd
    /\ req' = [req EXCEPT !.pc = "done"]
    /\ UNCHANGED credentials
    /\ UNCHANGED streamRest

\* Date.now() passes credentials.expires.
Expire ==
    /\ credentials.present /\ ~credentials.expired
    /\ credentials' = [credentials EXCEPT !.expired = TRUE]
    /\ UNCHANGED <<state, client, hpc, fed, req>>
    /\ UNCHANGED streamRest

NextRequest ==
    Arrive \/ Gate \/ Lookup \/ Fetch \/ ReqRead \/ ReqEnd \/ Expire

InitRequest ==
    /\ state = createConverterState
    /\ client = <<>>
    /\ hpc = "idle"
    /\ fed = <<>>
    /\ calls = NoCalls
    /\ response = EmptyUpstreamResponse
    /\ openAIResponse = NoResponse
    /\ IsoInit
    /\ req = NoRequest
    /\ credentials \in StoredCredentials
    /\ auth = NoAuth

SpecRequest == InitRequest /\ [][NextRequest]_vars

Count(log, call) == Cardinality({k \in 1..Len(log) : log[k] = call})

\* What holds of every request about getAccessToken and fetch, whether or
\* not it gets as far as the lookup.
OnceBeforeFetch ==
    /\ Count(req.log, "getAccessToken") <= 1
    /\ Count(req.log, "fetch") <= 1
    /\ Count(req.log, "fetch") = 1 =>
          req.log = <<"getAccessToken", "fetch">> /\ req.oauthToken # 0
    /\ Count(req.log, "getAccessToken") = 1 /\ req.oauthToken = 0 =>
          req.pc = "done" /\ req.status = 401 /\ Count(req.log, "fetch") = 0
    /\ hpc # "idle" => req.log = <<"getAccessToken", "fetch">>

DoneOnlyForMessageStop ==
    \A j \in 1..Len(client) :
       client[j].kind = "[DONE]" =>
          /\ client[j].src \in 1..Len(fed)
          /\ IsMessageStop(fed[client[j].src])

\* C27: when the upstream stream ends or errors (a step of the reading
\* handler that reads no line), the loop is left, the reader is released and
\* nothing is written, so no terminal marker of the handler's own; a terminal
\* marker reaches the client only for a message_stop line.
C27_EarlyCloseWritesNothing ==
    [][ /\ DoneOnlyForMessageStop'
        /\ (hpc = "reading" /\ fed' = fed) =>
              (hpc' = "released" /\ client' = client /\ state' = state) ]_vars

\* The upstream closed after a message_start and a text delta, before any
\* message_stop: the reader is released, two chunks and no marker written.
C27_Witness ==
    /\ hpc = "released"
    /\ fed = <<DataLine(MessageStart), DataLine(TextDelta)>>
    /\ Len(client) = 2
    /\ \A j \in 1..Len(client) : client[j].kind = "data"

\* ------------------------------------------------------------------------
\* C28: the emitted fragments and the buffer
\* ------------------------------------------------------------------------

\* The positions in fed of the tool_use starts of block i.
StartsOf(i) ==
    {k \in 1..Len(fed) :
        /\ fed[k].kind = "data"
        /\ IsToolStart(fed[k].data)
        /\ IndexOf(fed[k].data) = i}

\* The tool-call chunks written for block i for the lines after position k.
ToolChunksSince(i, k) ==
    SelectSeq(client,
              LAMBDA r : /\ r.kind = "data"
                         /\ r.data.tool_call.present
                         /\ r.data.tool_call.index = i
                         /\ r.src > k)

\* The argument fragments written for block i since its latest start, joined
\* in the order written.
EmittedSinceStart(i) ==
    LET chunks == ToolChunksSince(i, Last(StartsOf(i)))
    IN  Flatten([k \in 1..Len(chunks) |-> chunks[k].data.tool_call.arguments])

\* C28: in every reachable state, for every block index with an accumulator,
\* the argument fragments emitted for that index since its most recent
\* tool_use content_block_start, joined in emission order, are the
\* accumulator's buffer.
C28_EmittedIsBuffer ==
    \A i \in Indices :
       state.toolCallsTracker[i].present =>
          /\ StartsOf(i) # {}
          /\ EmittedSinceStart(i) = Buffer(i)

\* Block 0 was started and fed "cd", then started again and fed "ab": four
\* tool-call chunks were written for it, and the buffer is what was emitted
\* after the second start.
C28_Witness ==
    /\ Len(fed) = 4
    /\ StartsOf(0) = {1, 3}
    /\ Len(ToolChunksSince(0, 0)) = 4
    /\ Buffer(0) = <<"a", "b">>
    /\ EmittedSinceStart(0) = <<"a", "b">>
    /\ fed[2] = DataLine(ToolDelta(0, <<"c", "d">>))
    /\ fed[4] = DataLine(ToolDelta(0, <<"a", "b">>))

\* ------------------------------------------------------------------------
\* C29: the state after a line that raised inside the try block
\* ------------------------------------------------------------------------

\* The line this step read.
LineJustRead == fed'[Len(fed')]

\* JSON.parse throws on the line's text.
FailsToParse(line) == line.kind = "malformed"

\* data.message.id.replace throws: a message_start whose message has no id.
HasNoIdToReplace(line) ==
    /\ IsMessageStart(line)
    /\ line.data.message.present
    /\ ~line.data.message.has_id

\* The line is dropped because an exception reached the catch in processChunk.
DroppedOnError(line) == FailsToParse(line) \/ HasNoIdToReplace(line)

\* metricsData after the assignments and "+=" that updateMetrics makes for a
\* message_start whose message has no id and carries this model and usage.
CountedAnyway(m, message) ==
    [m EXCEPT
       !.messageId = <<>>,
       !.model = IF Truthy(message.model) THEN message.model ELSE @,
       !.input_tokens = @ + message.usage.input_tokens,
       !.output_tokens = @ + message.usage.output_tokens,
       !.cache_creation_input_tokens =
           @ + message.usage.cache_creation_input_tokens,
       !.cache_read_input_tokens = @ + message.usage.cache_read_input_tokens]

\* C29, as claimed: whenever a line is dropped because its processing raised
\* an error caught inside processChunk, the Exchange State after the line is
\* the state before it; a message_start whose message has usage and no id
\* adds nothing to the token counters and leaves the stored message id.
C29_StateKeptOnError ==
    [][ (OneLineRead /\ DroppedOnError(LineJustRead)) =>
           state' = state ]_vars

\* C29, amended: a line dropped because its processing raised an error caught
\* inside processChunk writes nothing and does not end the exchange.  When
\* the error is the parse failure the Exchange State is the state before the
\* line.  When it is raised after the metrics update (a message_start whose
\* message has no id) the usage of the message is added to the token
\* counters, the stored message id is cleared and the model taken from the
\* message; the client-facing id and the accumulators stay as they were.
C29_MetricsKeptOnLateError ==
    [][ (OneLineRead /\ DroppedOnError(LineJustRead)) =>
           /\ client' = client
           /\ hpc' = "reading"
           /\ FailsToParse(LineJustRead) => state' = state
           /\ HasNoIdToReplace(LineJustRead) =>
                 state' = [state EXCEPT
                             !.metricsData =
                                 CountedAnyway(@, LineJustRead.data.message)] ]_vars

\* A message_start with id and usage, then one with usage and no id: the
\* counters hold both usages, the stored message id is gone and the
\* client-facing id is still that of the first.
C29_Witness ==
    /\ fed = <<DataLine(MessageStart), DataLine(MessageStartNoId)>>
    /\ Len(client) = 1
    /\ state.metricsData.input_tokens = 3
    /\ state.metricsData.messageId = <<>>
    /\ state.metricsData.openAIId = <<"chatcmpl-", "01">>

\* ------------------------------------------------------------------------
\* C31: the API key gate
\* ------------------------------------------------------------------------

\* The request is past the API key test.
PastGate == req.pc \in {"lookup", "fetch", "streaming", "done"}

\* C31: a credential lookup and an upstream request are made only for a
\* request whose Authorization bearer is the configured API_KEY; every other
\* request, with a wrong key or with no Authorization header, is answered
\* with 401 before any credential lookup or upstream call.
C31_OnlyKeyedRequestsForwarded ==
    /\ req.log # <<>> => req.apiKey = API_KEY
    /\ (PastGate /\ req.apiKey # API_KEY) =>
          /\ req.pc = "done"
          /\ req.status = 401
          /\ req.log = <<>>

\* ------------------------------------------------------------------------
\* SpecAuth: calls of getAccessToken interleaved at their awaits with each
\* other, with logout and with the OAuth code exchange
\* ------------------------------------------------------------------------

\* The calls of getAccessToken begun in all, and the number of the last
\* tokens the token endpoint issues.
MaxAuthCalls == 2
MaxIssued == 3

authRest ==
    <<state, client, hpc, fed, calls, response, openAIResponse, heap,
      exchanges, req>>

\* newCredentials of refreshToken, and the credentials exchangeCodeForTokens
\* stores: the tokens number n, not yet expired.
TokensStored(n) ==
    [present |-> TRUE, expired |-> FALSE, has_refresh |-> TRUE,
     access |-> n, refresh |-> n]

\* getAccessToken is called and its redis.get is answered.
CallGet(c) ==
    /\ auth.p[c].pc \in {"idle", "returned"}
    /\ auth.started < MaxAuthCalls
    /\ auth' = [auth EXCEPT
                  !.p[c] = [NoCall EXCEPT !.pc = "got", !.cred = credentials,
                                          !.sinceLogout = auth.loggedOut],
                  !.started = @ + 1]
    /\ UNCHANGED credentials
    /\ UNCHANGED authRest

\* getAccessToken from the answer of get() to its return or to the fetch of
\* refreshToken.
AfterGet(call) ==
    IF ~call.cred.present
    THEN [call EXCEPT !.pc = "returned", !.ret = 0]
    ELSE IF ~call.cred.expired
    THEN [call EXCEPT !.pc = "returned", !.ret = call.cred.access]
    ELSE IF call.cred.has_refresh
    THEN [call EXCEPT !.pc = "sent"]
    ELSE [call EXCEPT !.pc = "returned", !.ret = 0]

\* The refresh request, with the refresh token of the credentials this call
\* read, as the token endpoint has it.
RefreshRequest(c, call) == [refresh |-> call.cred.refresh, by |-> c,
                            failed |-> FALSE]

CallGoesOn(c, call) ==
    auth' = [auth EXCEPT
               !.p[c] = call,
               !.sent = IF call.pc = "sent"
                        THEN Append(@, RefreshRequest(c, call)) ELSE @]

Continue(c) ==
    /\ auth.p[c].pc = "got"
    /\ CallGoesOn(c, AfterGet(auth.p[c]))
    /\ UNCHANGED credentials
    /\ UNCHANGED authRest

\* The requests sent, the last one of caller c marked as failed.
MarkFailed(sent, c) ==
    LET mine == {k \in 1..Len(sent) : sent[k].by = c}
        last == CHOOSE k \in mine : \A m \in mine : m <= k
    IN  [sent EXCEPT ![last].failed = TRUE]

\* The token endpoint answers the refresh request of call c: new tokens, or
\* an error status (or the fetch rejects), which the catch turns into null.
EndpointAnswers(c) ==
    /\ auth.p[c].pc = "sent"
    /\ \/ /\ auth.issued < MaxIssued
          /\ auth' = [auth EXCEPT
                        !.p[c].pc = "received",
                        !.p[c].resp = auth.issued + 1,
                        !.issued = @ + 1,
                        !.latest = auth.issued + 1]
       \/ auth' = [auth EXCEPT
                     !.p[c].pc = "returned",
                     !.p[c].ret = 0,
                     !.sent = MarkFailed(@, c)]
    /\ UNCHANGED credentials
    /\ UNCHANGED authRest

\* await set(newCredentials); return data.access_token
Store(c) ==
    /\ auth.p[c].pc = "received"
    /\ credentials' = TokensStored(auth.p[c].resp)
    /\ auth' = [auth EXCEPT !.p[c].pc = "returned",
                            !.p[c].ret = auth.p[c].resp]
    /\ UNCHANGED authRest

\* logout: await authManager.remove()
Logout ==
    /\ credentials' = NoCredentials
    /\ auth' = [auth EXCEPT !.loggedOut = TRUE, !.latest = 0]
    /\ UNCHANGED authRest

\* exchangeCodeForTokens: the token endpoint issues tokens for the code and
\* they are stored.
ExchangeCode ==
    /\ auth.issued < MaxIssued
    /\ credentials' = TokensStored(auth.issued + 1)
    /\ auth' = [auth EXCEPT !.issued = @ + 1, !.loggedOut = FALSE,
                            !.latest = 0]
    /\ UNCHANGED authRest

CallGets == \E c \in Callers : CallGet(c)
Continues == \E c \in Callers : Continue(c)
EndpointAnswersSome == \E c \in Callers : EndpointAnswers(c)
Stores == \E c \in Callers : Store(c)

NextAuth ==
    CallGets \/ Continues \/ EndpointAnswersSome \/ Stores \/ Logout
        \/ ExchangeCode \/ Expire

SpecAuth == InitRequest /\ [][NextAuth]_vars

\* No call of getAccessToken is in flight.
Quiet == \A c \in Callers : auth.p[c].pc \in {"idle", "returned"}

\* The requests sent with refresh token t that the endpoint did not refuse.
SentWith(t) ==
    {k \in 1..Len(auth.sent) : auth.sent[k].refresh = t /\ ~auth.sent[k].failed}

\* C32: when several requests concurrently call getAccessToken while the
\* stored token is expired, a given stored refresh token is sent to the token
\* endpoint at most once, and after all calls finish the stored credentials
\* are those returned by the latest successful refresh response.
C32_SingleRefresh ==
    /\ \A k \in 1..Len(auth.sent) :
          Cardinality(SentWith(auth.sent[k].refresh)) <= 1
    /\ (Quiet /\ auth.latest # 0) =>
          /\ credentials.present
          /\ credentials.access = auth.latest
          /\ credentials.refresh = auth.latest

\* C33: once logout has completed, and until a new OAuth code exchange
\* succeeds, no credentials are stored and every call of getAccessToken
\* begun since returns none, for every interleaving of logout with the calls
\* of getAccessToken and refreshToken in flight.
C33_LogoutDurable ==
    auth.loggedOut =>
       /\ ~credentials.present
       /\ \A c \in Callers :
             (auth.p[c].pc = "returned" /\ auth.p[c].sinceLogout) =>
                 auth.p[c].ret = 0

====
